---- MODULE Spec2Model ----
(***************************************************************************)
(* A model of the chat orchestration of the todo backend:                  *)
(*   - agent/runner.py: detect_bulk_operation, the pending-confirmation    *)
(*     table and run_agent;                                                *)
(*   - services/conversation_service.py: the conversation and message      *)
(*     store;                                                              *)
(*   - routes/chat.py: the chat turn endpoints.                            *)
(* Coroutines are modelled as processes that take one step per stretch of  *)
(* code between two suspension points (await).                             *)
(***************************************************************************)
EXTENDS Integers, Sequences, FiniteSets, TLC

(***************************************************************************)
(* Bounds of the model.                                                    *)
(***************************************************************************)
\* words typed after the seed of a detection input
MaxWords == 3
\* run_agent calls in one behaviour of SpecAgent
MaxCalls == 2
\* confirmation tokens that secrets.token_urlsafe can hand out
MaxTokens == 2

\* rows the conversations and messages sequences can hand out
MaxConvs == 2
MaxMsgs == 3
\* readings of the clock
MaxTime == 1
\* the limit argument of list_recent_messages
MaxLimit == 2
MaxEvents == 3
\* times the clock is advanced, and calls counted after a window's last allowed one
MaxSleeps == 3
MaxBlocked == 2
\* rows the tasks sequence can hand out
MaxTasks == 2

None == "none"

(***************************************************************************)
(* Text.  A str is a sequence of one-character strings.                    *)
(***************************************************************************)
Chars(w) ==
    CASE w = "delete"    -> <<"d","e","l","e","t","e">>
      [] w = "DELETE"    -> <<"D","E","L","E","T","E">>
      [] w = "Delete"    -> <<"D","e","l","e","t","e">>
      [] w = "remove"    -> <<"r","e","m","o","v","e">>
      [] w = "clear"     -> <<"c","l","e","a","r">>
      [] w = "complete"  -> <<"c","o","m","p","l","e","t","e">>
      [] w = "mark"      -> <<"m","a","r","k">>
      [] w = "finish"    -> <<"f","i","n","i","s","h">>
      [] w = "all"       -> <<"a","l","l">>
      [] w = "All"       -> <<"A","l","l">>
      [] w = "every"     -> <<"e","v","e","r","y">>
      [] w = "each"      -> <<"e","a","c","h">>
      [] w = "task"      -> <<"t","a","s","k">>
      [] w = "tasks"     -> <<"t","a","s","k","s">>
      [] w = "todo"      -> <<"t","o","d","o">>
      [] w = "done"      -> <<"d","o","n","e">>
      [] w = "my"        -> <<"m","y">>
      [] w = "as"        -> <<"a","s">>
      [] w = "about"     -> <<"a","b","o","u","t">>
      [] w = "groceries" -> <<"g","r","o","c","e","r","i","e","s">>
      [] w = "show"      -> <<"s","h","o","w">>
      [] w = "me"        -> <<"m","e">>
      [] w = " "         -> <<" ">>
      [] w = "  "        -> <<" "," ">>
      [] w = "\t"        -> <<"\t">>
      [] w = "\n"        -> <<"\n">>

RECURSIVE Text(_)
\* the str spelled by a sequence of words and separators
Text(ws) == IF ws = <<>> THEN <<>> ELSE Chars(Head(ws)) \o Text(Tail(ws))

\* str.lower on the letters the inputs use
LowerOf ==
    [c \in {"A","D","E","L","T"} |->
        CASE c = "A" -> "a" [] c = "D" -> "d" [] c = "E" -> "e"
          [] c = "L" -> "l" [] c = "T" -> "t"]

lower(s) == [i \in 1..Len(s) |-> IF s[i] \in DOMAIN LowerOf THEN LowerOf[s[i]] ELSE s[i]]

\* the characters the regular expression class \s matches
IsSpace(c) == c \in {" ", "\t", "\n", "\r", "\f"}

(***************************************************************************)
(* Regular expressions of BULK_PATTERNS.  A pattern is a sequence of       *)
(* elements: an alternation of literals, \s+ or .* ; positions count the   *)
(* characters consumed so far.                                             *)
(***************************************************************************)
Lit(words) == [t |-> "lit", alts |-> {Chars(w) : w \in words}]
Ws == [t |-> "ws", alts |-> {}]
AnyStar == [t |-> "any", alts |-> {}]

AllEveryEach == Lit({"all", "every", "each"})
TaskTodo == Lit({"task", "todo"})

BULK_PATTERNS ==
    << [re |-> <<Lit({"delete"}), Ws, AllEveryEach, Ws, TaskTodo>>,
        action |-> "delete_all"],
       [re |-> <<Lit({"remove", "clear"}), Ws, AllEveryEach, Ws, TaskTodo>>,
        action |-> "delete_all"],
       [re |-> <<Lit({"complete"}), Ws, AllEveryEach, Ws, TaskTodo>>,
        action |-> "complete_all"],
       [re |-> <<Lit({"mark"}), Ws, AllEveryEach, Ws, TaskTodo, AnyStar,
                 Lit({"done", "complete"})>>,
        action |-> "complete_all"],
       [re |-> <<Lit({"finish"}), Ws, AllEveryEach, Ws, TaskTodo>>,
        action |-> "complete_all"] >>

\* the positions one element can reach from the positions in S
MatchElem(s, e, S) ==
    CASE e.t = "lit" ->
           {p + Len(w) : <<p, w>> \in
               {x \in S \X e.alts :
                   /\ x[1] + Len(x[2]) <= Len(s)
                   /\ SubSeq(s, x[1] + 1, x[1] + Len(x[2])) = x[2]}}
      [] e.t = "ws" ->
           {q \in 1..Len(s) :
               \E p \in S : p < q /\ \A i \in (p + 1)..q : IsSpace(s[i])}
      [] e.t = "any" ->
           {q \in 0..Len(s) :
               \E p \in S : p <= q /\ \A i \in (p + 1)..q : s[i] # "\n"}

RECURSIVE MatchFrom(_, _, _, _)
MatchFrom(s, re, k, S) ==
    IF k > Len(re) \/ S = {} THEN S
    ELSE MatchFrom(s, re, k + 1, MatchElem(s, re[k], S))

\* re.search: a match may start anywhere
re_search(re, s) == MatchFrom(s, re, 1, 0..Len(s)) # {}

RECURSIVE FirstMatch(_, _)
FirstMatch(s, k) ==
    IF k > Len(BULK_PATTERNS) THEN None
    ELSE IF re_search(BULK_PATTERNS[k].re, s) THEN BULK_PATTERNS[k].action
    ELSE FirstMatch(s, k + 1)

detect_bulk_operation(message) == FirstMatch(lower(message), 1)

(***************************************************************************)
(* State.                                                                  *)
(***************************************************************************)
VARIABLES
    dWords,     \* detection input: the words and separators of the message
    dTyped,     \* detection input: words typed after the seed
    dpc,        \* detection: "in" before the call, "out" after it
    detected,   \* detection: the value detect_bulk_operation returned
    pending,    \* _pending_confirmations: token -> [user_id, action]
    minted,     \* number of tokens secrets.token_urlsafe has returned
    call,       \* the run_agent calls: arguments, locals, position, result
    conversations,  \* table conversations: id -> row
    messages,       \* table messages: id -> row
    convSeq,        \* last id the conversations sequence handed out
    msgSeq,         \* last id the messages sequence handed out
    now,            \* the value utc_now_naive() returns
    res,            \* the last conversation operation: arguments and result
    thread_id_map,  \* TodoChatKitStore._thread_id_map: temporary thread id -> conversation id
    turn,           \* the chat turns: request, locals, position, events sent
    respond,        \* TodoChatKitServer.respond: its locals, position, events yielded
    rate_limit_storage, \* rate_limit.py: user_id -> (count, reset_time)
    clock,              \* the value time.time() returns, in seconds
    windows,            \* per user: the calls made since the window was opened
    limited,            \* the last check_rate_limit call: argument, result
    token_blacklist,    \* jwt_utils.py: the revoked token strings
    auth,               \* the last decode_token call: argument, result
    tasks,              \* table tasks: id -> row
    taskSeq,            \* last id the tasks sequence handed out
    reply,              \* the last task request: arguments, status, detail
    store_call          \* the TodoChatKitStore calls in flight: arguments, locals, position

detectVars == <<dWords, dTyped, dpc, detected>>
agentVars == <<pending, minted, call>>
dbVars == <<conversations, messages, convSeq, msgSeq, now, res, thread_id_map>>
rateVars == <<rate_limit_storage, clock, windows, limited>>
authVars == <<token_blacklist, auth>>
taskVars == <<tasks, taskSeq, reply>>
storeVars == <<store_call>>
edgeVars == <<rateVars, authVars, taskVars, storeVars>>
vars == <<detectVars, respond, edgeVars, agentVars, dbVars, turn>>

Users == {"alice", "bob"}
Calls == 1..MaxCalls

\* the value of a run_agent call that has not been made
NoRun == [agent |-> None, input |-> None, user_id |-> None]
NoConfirmation == [user_id |-> None, action |-> None]
NoRequest == [action |-> None, confirm_token |-> 0]
IdleCall ==
    [pc |-> "idle", user_id |-> None, user_message |-> <<>>,
     conversation_history |-> <<>>, raised |-> FALSE,
     has_token |-> FALSE, confirm_token |-> 0,
     bulk_action |-> None, confirmation |-> NoConfirmation,
     thinking_steps |-> <<>>, run |-> NoRun,
     response |-> None, error |-> None,
     confirmation_required |-> NoRequest, response_thinking |-> <<>>]

DetectIdle ==
    /\ dWords = <<>>
    /\ dTyped = 0
    /\ dpc = "in"
    /\ detected = None

AgentIdle ==
    /\ pending = << >>
    /\ minted = 0
    /\ call = [p \in Calls |-> IdleCall]

\* a str is kept as the text it was cut from, the offset of its first
\* character in that text and its length: text[from : from + len]
Str(text, len) == [text |-> text, from |-> 0, len |-> len]
NoContent == Str(None, 0)

NoResult ==
    [op |-> None, user_id |-> None, conversation_id |-> 0, limit |-> 0,
     convs |-> {}, msgs |-> <<>>, count |-> 0, ok |-> FALSE,
     content |-> NoContent, error |-> None]

IdleTurn ==
    [pc |-> "idle", endpoint |-> None, user_id |-> None, message |-> <<>>,
     conversation_id |-> 0, has_token |-> FALSE, confirm_token |-> 0,
     conversation |-> 0, user_msg |-> 0, assistant_msg |-> 0, events |-> <<>>]

\* respond before it is called: full_content, received_streaming_deltas,
\* processed_message_output_ids, the text of assistant_item, the events
\* yielded, and the runtime events consumed with what each made it yield
IdleRespond ==
    [pc |-> "idle", full_content |-> <<>>, received_streaming_deltas |-> FALSE,
     processed_message_output_ids |-> {}, item_text |-> <<>>,
     events |-> <<>>, log |-> <<>>]

\* a check_rate_limit call that has not been made
NoCheck ==
    [user_id |-> None, current_time |-> 0, before |-> << >>, calls |-> 0,
     is_allowed |-> FALSE, remaining |-> 0, reset_time |-> 0]

\* a decode_token call that has not been made
NoDecode == [token |-> None, status |-> 0, detail |-> None, before |-> {}]

\* a task request that has not been made
NoReply ==
    [route |-> None, current_user |-> None, user_id |-> None, task_id |-> 0,
     status |-> 0, detail |-> None, body |-> None, before |-> << >>, read |-> {}]

\* a store call that has not been made
IdleStoreCall ==
    [pc |-> "idle", op |-> None, user_id |-> None, thread_id |-> 0,
     existing_conv_id |-> 0, conv_id |-> 0, created |-> 0, message |-> 0]

\* the process has started and no request has arrived
EdgeIdle ==
    /\ store_call = [p \in Calls |-> IdleStoreCall]
    /\ rate_limit_storage = << >>
    /\ clock = 0
    /\ windows = << >>
    /\ limited = NoCheck
    /\ token_blacklist = {}
    /\ auth = NoDecode
    /\ tasks = << >>
    /\ taskSeq = 0
    /\ reply = NoReply

ChatIdle ==
    /\ turn = [p \in Calls |-> IdleTurn]
    /\ respond = IdleRespond
    /\ EdgeIdle

DbEmpty ==
    /\ conversations = << >>
    /\ messages = << >>
    /\ convSeq = 0
    /\ msgSeq = 0
    /\ now = 0
    /\ res = NoResult
    /\ thread_id_map = << >>

(***************************************************************************)
(* detect_bulk_operation on bounded inputs.                                *)
(***************************************************************************)
DeleteAllMyTasks == <<"delete", " ", "all", " ", "my", " ", "tasks">>
DeleteMyTaskAboutGroceries ==
    <<"delete", " ", "my", " ", "task", " ", "about", " ", "groceries">>

Seeds ==
    { <<>>,
      DeleteAllMyTasks,
      DeleteMyTaskAboutGroceries,
      <<"Delete", " ", "All", " ", "tasks">>,
      <<"delete", "  ", "all", "\t", "todo">>,
      <<"mark", " ", "all", " ", "tasks", " ", "as", " ", "done">>,
      <<"mark", " ", "all", " ", "tasks", "\n", "done">>,
      <<"clear", " ", "each", " ", "todo">>,
      <<"finish", " ", "every", " ", "task">> }

Vocabulary == {"delete", "DELETE", "complete", "mark", "all", "my", "tasks", "done"}

InitDetect ==
    /\ dWords \in Seeds
    /\ dTyped = 0
    /\ dpc = "in"
    /\ detected = None
    /\ AgentIdle
    /\ DbEmpty
    /\ ChatIdle

TypeWord ==
    /\ dpc = "in"
    /\ dTyped < MaxWords
    /\ \E w \in Vocabulary :
          dWords' = IF dWords = <<>> THEN <<w>> ELSE dWords \o <<" ", w>>
    /\ dTyped' = dTyped + 1
    /\ UNCHANGED <<dpc, detected, agentVars, dbVars, turn, respond, edgeVars>>

Detect ==
    /\ dpc = "in"
    /\ detected' = detect_bulk_operation(Text(dWords))
    /\ dpc' = "out"
    /\ UNCHANGED <<dWords, dTyped, agentVars, dbVars, turn, respond, edgeVars>>

NextDetect == TypeWord \/ Detect

SpecDetect == InitDetect /\ [][NextDetect]_vars

\* C7: detect_bulk_operation returns the action of the first pattern of
\* BULK_PATTERNS that matches the lower-cased message and none when no pattern
\* matches; "delete all my tasks" yields delete_all and "delete my task about
\* groceries" yields no bulk action.
C7_DetectFirstMatchAndExamples ==
    dpc = "out" =>
        /\ LET hits == {k \in 1..Len(BULK_PATTERNS) :
                           re_search(BULK_PATTERNS[k].re, lower(Text(dWords)))}
           IN  IF hits = {} THEN detected = None
               ELSE \E k \in hits :
                       /\ \A j \in hits : k <= j
                       /\ detected = BULK_PATTERNS[k].action
        /\ (dWords = DeleteAllMyTasks => detected = "delete_all")
        /\ (dWords = DeleteMyTaskAboutGroceries => detected = None)

(***************************************************************************)
(* run_agent (agent/runner.py).  A call is at "entry" when it has been     *)
(* made, at "list", "bulk" or "normal" while it awaits the agent runtime   *)
(* (the MCP connection and Runner.run) and at "ret" when it has returned.  *)
(***************************************************************************)
DeleteAllTasks == <<"delete", " ", "all", " ", "tasks">>
CompleteEveryTodo == <<"complete", " ", "every", " ", "todo">>
ShowMeMyTasks == <<"show", " ", "me", " ", "my", " ", "tasks">>

AgentMessages == {DeleteAllTasks, CompleteEveryTodo, ShowMeMyTasks}

\* detect_bulk_operation(user_message) for the messages of the calls
BulkActionOf == [m \in AgentMessages |-> detect_bulk_operation(Text(m))]

\* a token string that secrets.token_urlsafe never returned
ForgedToken == MaxTokens + 1

\* dict.pop(token)
PopTokenKeeps(table, token) == table
PopToken(table, token) == [t \in DOMAIN table \ {token} |-> table[t]]

\* confirmation["user_id"] != user_id
UserMismatchNever(confirmation, user_id) == FALSE
UserMismatch(confirmation, user_id) == confirmation.user_id # user_id

\* confirm_token and confirm_token in _pending_confirmations
TokenPending(c) == c.has_token /\ c.confirm_token \in DOMAIN pending

\* bulk_action and not confirm_token
NeedsConfirmation(bulk_action, c) == bulk_action # None /\ ~c.has_token

\* the bulk_instruction built from the recorded action
BulkInstruction(action) ==
    IF action = "delete_all" THEN "Delete all tasks"
    ELSE "Mark all incomplete tasks as complete"

\* action = confirmation["action"]
DetectedAction(confirmation, bulk_action) == bulk_action
RecordedAction(confirmation, bulk_action) == confirmation.action

\* the value stored under a new token (created_at is never read)
ConfirmationEntryNoUser(c) == [user_id |-> None, action |-> c.bulk_action]
ConfirmationEntry(c) == [user_id |-> c.user_id, action |-> c.bulk_action]

\* error=str(e) in the except branches of the confirmed and the normal
\* execution
ErrorDropped(raised) == None
ErrorOf(raised) == IF raised THEN "str(e)" ELSE None

\* a caller makes call p
CallRunAgent(p) ==
    /\ call[p].pc = "idle"
    /\ turn[p].pc = "idle"
    /\ \A q \in Calls : q < p => call[q].pc # "idle"
    /\ \E u \in Users, m \in AgentMessages,
          tok \in 0..(IF minted < MaxTokens THEN minted ELSE MaxTokens) \cup {ForgedToken} :
          call' = [call EXCEPT ![p] =
                     [@ EXCEPT !.pc = "entry", !.user_id = u, !.user_message = m,
                               !.has_token = (tok # 0), !.confirm_token = tok]]
    /\ UNCHANGED <<pending, minted, detectVars, respond, edgeVars, dbVars, turn>>

\* lines 133-167, 210-242 and 259-307: from the call to its first await
RunAgentEntry(p) ==
    /\ call[p].pc = "entry"
    /\ LET c == call[p]
           bulk_action == BulkActionOf[c.user_message]
           c1 == [c EXCEPT !.bulk_action = bulk_action,
                           !.thinking_steps = <<"analyzing">>]
       IN  IF NeedsConfirmation(bulk_action, c) THEN
               /\ call' = [call EXCEPT ![p] =
                     [c1 EXCEPT !.pc = "list",
                                !.thinking_steps = @ \o <<"clarifying">>,
                                !.run = [agent |-> "Task Lister",
                                         input |-> "List all tasks",
                                         user_id |-> c.user_id]]]
               /\ UNCHANGED <<pending, minted>>
           ELSE IF TokenPending(c) THEN
               LET confirmation == pending[c.confirm_token] IN
               /\ pending' = PopToken(pending, c.confirm_token)
               /\ UNCHANGED minted
               /\ IF UserMismatch(confirmation, c.user_id) THEN
                      call' = [call EXCEPT ![p] =
                         [c1 EXCEPT !.pc = "ret",
                                    !.confirmation = confirmation,
                                    !.response = "Invalid confirmation token.",
                                    !.error = "Token user mismatch"]]
                  ELSE
                      call' = [call EXCEPT ![p] =
                         [c1 EXCEPT !.pc = "bulk",
                                    !.confirmation = confirmation,
                                    !.thinking_steps = @ \o <<"processing">>,
                                    !.run = [agent |-> "Bulk Task Agent",
                                             input |-> BulkInstruction(RecordedAction(confirmation, bulk_action)),
                                             user_id |-> c.user_id]]]
           ELSE
               /\ call' = [call EXCEPT ![p] =
                     [c1 EXCEPT !.pc = "normal",
                                !.thinking_steps = @ \o <<"planning">>,
                                !.run = [agent |-> "Task Management Assistant",
                                         input |-> "user_message",
                                         user_id |-> c.user_id]]]
               /\ UNCHANGED <<pending, minted>>
    /\ UNCHANGED <<detectVars, respond, edgeVars, dbVars, turn>>

\* lines 167-187: the listing fails or its output contains "no tasks"
ListReturnsNothing(p) ==
    /\ call[p].pc = "list"
    /\ \E raised \in BOOLEAN :
          call' = [call EXCEPT ![p] =
             [@ EXCEPT !.pc = "ret",
                       !.raised = raised,
                       !.response = "You don't have any tasks to perform this action on.",
                       !.response_thinking = call[p].thinking_steps]]
    /\ UNCHANGED <<pending, minted, detectVars, respond, edgeVars, dbVars, turn>>

\* lines 167-208: the listing succeeds; a token is minted and recorded
ListReturnsTasks(p) ==
    /\ call[p].pc = "list"
    /\ minted < MaxTokens
    /\ LET token == minted + 1 IN
       /\ minted' = token
       /\ pending' = pending @@ (token :> ConfirmationEntry(call[p]))
       /\ call' = [call EXCEPT ![p] =
             [@ EXCEPT !.pc = "ret",
                       !.response = "Please confirm this action.",
                       !.confirmation_required =
                           [action |-> call[p].bulk_action, confirm_token |-> token],
                       !.response_thinking = call[p].thinking_steps]]
    /\ UNCHANGED <<detectVars, respond, edgeVars, dbVars, turn>>

\* lines 242-257: the bulk run returns its final output, or raises
BulkReturns(p) ==
    /\ call[p].pc = "bulk"
    /\ \E ok \in BOOLEAN :
          call' = [call EXCEPT ![p] =
             [@ EXCEPT !.pc = "ret",
                       !.raised = ~ok,
                       !.response = IF ok THEN "final_output"
                                    ELSE "Failed to execute bulk operation. Please try again.",
                       !.error = ErrorOf(~ok),
                       !.response_thinking = call[p].thinking_steps]]
    /\ UNCHANGED <<pending, minted, detectVars, respond, edgeVars, dbVars, turn>>

\* lines 268-345: the normal run returns its content, or the connection or
\* the run raises
NormalReturns(p) ==
    /\ call[p].pc = "normal"
    /\ \E outcome \in {"ok", "connect_error", "run_error"} :
          LET steps == call[p].thinking_steps \o
                  (CASE outcome = "ok" -> <<"processing", "processing", "processing">>
                     [] outcome = "run_error" -> <<"processing", "processing">>
                     [] outcome = "connect_error" -> <<>>)
          IN  call' = [call EXCEPT ![p] =
                 [@ EXCEPT !.pc = "ret",
                           !.raised = (outcome # "ok"),
                           !.thinking_steps = steps,
                           !.response = IF outcome = "ok" THEN "content"
                                        ELSE "I encountered an error processing your request. Please try again.",
                           !.error = ErrorOf(outcome # "ok"),
                           !.response_thinking = steps]]
    /\ UNCHANGED <<pending, minted, detectVars, respond, edgeVars, dbVars, turn>>

\* The process has served earlier turns: the table is empty, or holds one
\* token that an earlier confirmation request left there.
InitAgent ==
    /\ DetectIdle
    /\ DbEmpty
    /\ ChatIdle
    /\ call = [p \in Calls |-> IdleCall]
    /\ \/ pending = << >> /\ minted = 0
       \/ /\ minted = 1
          /\ \E u \in Users, a \in {"delete_all", "complete_all"} :
                pending = (1 :> [user_id |-> u, action |-> a])

NextAgent ==
    \E p \in Calls :
        \/ CallRunAgent(p)
        \/ RunAgentEntry(p)
        \/ ListReturnsNothing(p)
        \/ ListReturnsTasks(p)
        \/ BulkReturns(p)
        \/ NormalReturns(p)

SpecAgent == InitAgent /\ [][NextAgent]_vars

(***************************************************************************)
(* Properties of run_agent and the pending-confirmation table.             *)
(***************************************************************************)
Entered(c) == c.pc \notin {"idle", "entry"}
Returned(c) == c.pc = "ret"
BulkExecuted(p) == call[p].run.agent = "Bulk Task Agent"
RejectedAsInvalid(c) ==
    /\ c.run = NoRun
    /\ Returned(c) => c.response = "Invalid confirmation token." /\ c.error # None

\* C1: at most one run_agent call performs the confirmed bulk execution with
\* a given token, and a later call by the same user that presents the token
\* again is rejected as an invalid token: it hands nothing to the agent
\* runtime, neither a bulk instruction nor a normal turn.
C1_TokenRedeemedOnceThenRejected ==
    \A t \in 1..MaxTokens :
        /\ Cardinality({p \in Calls : BulkExecuted(p) /\ call[p].confirm_token = t}) <= 1
        /\ \A p, q \in Calls :
              ( /\ p # q
                /\ BulkExecuted(q) /\ call[q].confirm_token = t
                /\ Entered(call[p]) /\ ~BulkExecuted(p)
                /\ call[p].confirm_token = t
                /\ call[p].user_id = call[q].user_id )
              => RejectedAsInvalid(call[p])

\* C2: a call whose confirm_token was never issued returns the invalid
\* confirmation error and does not invoke the agent runtime, whatever its
\* message.
C2_UnknownTokenRejected ==
    \A p \in Calls :
        (Entered(call[p]) /\ call[p].confirm_token = ForgedToken)
            => RejectedAsInvalid(call[p])

AsksForConfirmation(c) == Entered(c) /\ c.bulk_action # None /\ ~c.has_token

\* C4 as stated: with a bulk action detected and no confirm_token, run_agent
\* returns a non-null confirmation_required and makes no call to the agent
\* runtime.
C4_AlwaysConfirmsWithoutRuntimeCall ==
    \A p \in Calls :
        AsksForConfirmation(call[p]) =>
            /\ call[p].run = NoRun
            /\ Returned(call[p]) => call[p].confirmation_required # NoRequest

\* C4 as amended: with a bulk action detected and no confirm_token, the only
\* call to the agent runtime is the Task Lister run with input "List all
\* tasks"; the call then returns either a confirmation_required carrying the
\* detected action and a token minted in that step and recorded in the
\* pending table for that user, or the "no tasks" response with no
\* confirmation_required and the table and the token source untouched.
C4_ListsThenConfirmsOrNothing ==
    /\ [](\A p \in Calls :
            AsksForConfirmation(call[p]) =>
                call[p].run = [agent |-> "Task Lister", input |-> "List all tasks",
                               user_id |-> call[p].user_id])
    /\ [][\A p \in Calls :
            (AsksForConfirmation(call[p]) /\ ~Returned(call[p]) /\ Returned(call'[p])) =>
                LET r == call'[p].confirmation_required IN
                /\ call'[p].error = None
                /\ \/ /\ r = NoRequest
                      /\ call'[p].response = "You don't have any tasks to perform this action on."
                      /\ pending' = pending
                      /\ minted' = minted
                   \/ /\ r.action = call[p].bulk_action
                      /\ r.confirm_token = minted'
                      /\ minted' = minted + 1
                      /\ r.confirm_token \notin DOMAIN pending
                      /\ DOMAIN pending' = DOMAIN pending \cup {r.confirm_token}
                      /\ pending'[r.confirm_token] =
                            [user_id |-> call[p].user_id, action |-> call[p].bulk_action]
                      /\ \A t \in DOMAIN pending : pending'[t] = pending[t]]_vars

C4_Witness ==
    \E p, q \in Calls :
        /\ AsksForConfirmation(call[p]) /\ Returned(call[p])
        /\ call[p].confirmation_required # NoRequest
        /\ call[p].confirmation_required.confirm_token \in DOMAIN pending
        /\ AsksForConfirmation(call[q]) /\ Returned(call[q])
        /\ call[q].confirmation_required = NoRequest

\* C6: of the calls that present the same valid token, also when they
\* interleave at their await points, at most one performs the confirmed bulk
\* execution: the token has left the pending table by the time the redeeming
\* call first suspends.
C6_OneRedeemerPerToken ==
    \A p \in Calls :
        BulkExecuted(p) =>
            /\ call[p].confirm_token \notin DOMAIN pending
            /\ \A q \in Calls :
                  (q # p /\ BulkExecuted(q)) =>
                      call[q].confirm_token # call[p].confirm_token

C6_Witness ==
    \E p, q \in Calls :
        /\ p # q
        /\ call[p].pc = "bulk"
        /\ Entered(call[q])
        /\ call[q].has_token
        /\ call[q].confirm_token = call[p].confirm_token
        /\ call[q].user_id = call[p].user_id

\* C25: a redemption attempt that fails because the token was recorded for
\* another user leaves the token in the pending table, so that its
\* requester can still redeem it.
C25_FailedRedemptionKeepsToken ==
    \A p \in Calls :
        (Returned(call[p]) /\ call[p].error = "Token user mismatch") =>
            /\ call[p].confirm_token \in DOMAIN pending
            /\ pending[call[p].confirm_token] = call[p].confirmation

\* call q minted the token that call p presents
MintedFor(q, p) ==
    /\ call[q].confirmation_required # NoRequest
    /\ call[q].confirmation_required.confirm_token = call[p].confirm_token

\* C26: the bulk instruction handed to the runtime on redemption is the one
\* of the action recorded when the token was minted, whatever is detected
\* on the confirming message: nothing, the same action or the other one.
C26_RecordedActionExecuted ==
    \A p \in Calls :
        BulkExecuted(p) =>
            /\ call[p].run.input = BulkInstruction(call[p].confirmation.action)
            /\ \A q \in Calls :
                  MintedFor(q, p) =>
                      /\ call[p].confirmation.action = call[q].bulk_action
                      /\ call[p].confirmation.user_id = call[q].user_id

C26_Witness ==
    \E p, q \in Calls :
        /\ BulkExecuted(p)
        /\ MintedFor(q, p)
        /\ call[q].bulk_action = "delete_all"
        /\ call[p].bulk_action = "complete_all"
        /\ call[p].run.input = "Delete all tasks"

(***************************************************************************)
(* The conversation store (models.py, services/conversation_service.py).   *)
(***************************************************************************)
MaxContent == 4000

ShortContent == Str("hello", 5)
LimitContent == Str("limit", MaxContent)
LongContent == Str("essay", MaxContent + 1)
Roles == {"user", "assistant"}

\* content[:4000] when len(content) > 4000
\* s[:n]
Prefix(s, n) == [s EXCEPT !.len = IF @ > n THEN n ELSE @]

\* content[:4000] when len(content) > 4000
TruncateKeepsEnd(content) ==
    IF content.len > MaxContent
    THEN [content EXCEPT !.from = @ + (content.len - MaxContent), !.len = MaxContent]
    ELSE content
Truncate(content) ==
    IF content.len > MaxContent THEN Prefix(content, MaxContent) ELSE content

\* Conversation.user_id == user_id
ConvOwnedByAnyone(row, user_id) == TRUE
ConvOwnedBy(row, user_id) == row.user_id = user_id

\* Message.user_id == user_id
MsgOwnedByAnyone(row, user_id) == TRUE
MsgOwnedBy(row, user_id) == row.user_id = user_id

\* select(Conversation).where(id == conversation_id, user_id == user_id)
SelectConversation(conversation_id, user_id) ==
    {c \in DOMAIN conversations :
        c = conversation_id /\ ConvOwnedBy(conversations[c], user_id)}

\* select(Message).where(conversation_id == ..., user_id == ...)
SelectMessages(conversation_id, user_id) ==
    {m \in DOMAIN messages :
        /\ messages[m].conversation_id = conversation_id
        /\ MsgOwnedBy(messages[m], user_id)}

\* the relationship Conversation.messages (selectinload): by foreign key
RelatedMessages(conversation_id) ==
    {m \in DOMAIN messages : messages[m].conversation_id = conversation_id}

\* the order (created_at, id) of two message ids
Older(a, b) ==
    \/ messages[a].created_at < messages[b].created_at
    \/ messages[a].created_at = messages[b].created_at /\ a < b

RECURSIVE OrderByAsc(_)
\* order_by(Message.created_at.asc(), Message.id.asc())
OrderByAsc(S) ==
    IF S = {} THEN <<>>
    ELSE LET m == CHOOSE x \in S : \A y \in S : y = x \/ Older(x, y)
         IN  <<m>> \o OrderByAsc(S \ {m})

\* the same query ordered oldest first
OrderedOldestFirst(S) == OrderByAsc(S)

RECURSIVE OrderByDesc(_)
\* order_by(Message.created_at.desc(), Message.id.desc())
OrderByDesc(S) ==
    IF S = {} THEN <<>>
    ELSE LET m == CHOOSE x \in S : \A y \in S : y = x \/ Older(y, x)
         IN  <<m>> \o OrderByDesc(S \ {m})

\* .limit(n)
Limit(seq, n) == SubSeq(seq, 1, IF Len(seq) < n THEN Len(seq) ELSE n)

\* list.reverse()
Reverse(seq) == [i \in 1..Len(seq) |-> seq[Len(seq) + 1 - i]]

\* the rows of a sequence of message ids
MessageRows(ids) == [i \in 1..Len(ids) |-> messages[ids[i]]]

\* list_recent_messages: newest first, limited, then reversed
list_recent_messages(conversation_id, user_id, limit) ==
    Reverse(Limit(OrderByDesc(SelectMessages(conversation_id, user_id)), limit))

\* get_full_history
get_full_history(conversation_id, user_id) ==
    OrderByAsc(SelectMessages(conversation_id, user_id))

\* get_message_count
get_message_count(conversation_id, user_id) ==
    Cardinality(SelectMessages(conversation_id, user_id))

\* the same query without its order_by
AnyConversationOf(user_id) ==
    {c \in DOMAIN conversations : ConvOwnedBy(conversations[c], user_id)}

\* the conversations of a user with the greatest updated_at:
\* order_by(updated_at.desc()).limit(1) returns one of them
MostRecentlyUpdated(user_id) ==
    {c \in DOMAIN conversations :
        /\ ConvOwnedBy(conversations[c], user_id)
        /\ \A d \in DOMAIN conversations :
              ConvOwnedBy(conversations[d], user_id) =>
                  conversations[d].updated_at <= conversations[c].updated_at}

\* title = None, the title "Chat <date>" of create_new_conversation, and a
\* title a client sets
NoTitle == NoContent
DefaultTitle == Str("Chat %Y-%m-%d %H:%M", 21)
Renamed == Str("renamed", 7)

\* a new row of table conversations (created_at is never read)
NewConversation(id, user_id, title) ==
    [id |-> id, user_id |-> user_id, title |-> title, updated_at |-> now]

\* the row append_message inserts for a conversation row
NewMessage(id, conversation, role, content) ==
    [id |-> id, user_id |-> conversation.user_id,
     conversation_id |-> conversation.id, role |-> role,
     content |-> Truncate(content), created_at |-> now]

Result(op, user_id, conversation_id) ==
    [NoResult EXCEPT !.op = op, !.user_id = user_id,
                     !.conversation_id = conversation_id]

\* the clock advances
Tick ==
    /\ now < MaxTime
    /\ now' = now + 1
    /\ UNCHANGED <<conversations, messages, convSeq, msgSeq, res, thread_id_map, detectVars, respond, edgeVars, agentVars, turn>>

\* the operation returns to its caller, which may then issue the next one
ReturnResult ==
    /\ res # NoResult
    /\ res' = NoResult
    /\ UNCHANGED <<conversations, messages, convSeq, msgSeq, now, thread_id_map, detectVars, respond, edgeVars, agentVars, turn>>

\* create_new_conversation(session, user_id)
CreateNewConversation(u) ==
    /\ res = NoResult
    /\ convSeq < MaxConvs
    /\ convSeq' = convSeq + 1
    /\ conversations' = conversations @@ (convSeq' :> NewConversation(convSeq', u, DefaultTitle))
    /\ res' = [Result("create_new_conversation", u, convSeq') EXCEPT
                  !.convs = {conversations'[convSeq']}]
    /\ UNCHANGED <<messages, msgSeq, now, thread_id_map, detectVars, respond, edgeVars, agentVars, turn>>

\* get_or_create_conversation(session, user_id), run without interleaving
GetOrCreateConversation(u) ==
    /\ res = NoResult
    /\ IF MostRecentlyUpdated(u) # {} THEN
          /\ \E c \in MostRecentlyUpdated(u) :
                res' = [Result("get_or_create_conversation", u, c) EXCEPT
                           !.convs = {conversations[c]},
                           !.msgs = MessageRows(OrderByAsc(RelatedMessages(c)))]
          /\ UNCHANGED <<conversations, convSeq>>
       ELSE
          /\ convSeq < MaxConvs
          /\ convSeq' = convSeq + 1
          /\ conversations' = conversations @@ (convSeq' :> NewConversation(convSeq', u, NoTitle))
          /\ res' = [Result("get_or_create_conversation", u, convSeq') EXCEPT
                        !.convs = {conversations'[convSeq']}]
    /\ UNCHANGED <<messages, msgSeq, now, thread_id_map, detectVars, respond, edgeVars, agentVars, turn>>

\* append_message(session, conversation, role, content) on a conversation
\* object the caller obtained for user u
AppendMessage(u, c, role, content) ==
    /\ res = NoResult
    /\ c \in SelectConversation(c, u)
    /\ msgSeq < MaxMsgs
    /\ msgSeq' = msgSeq + 1
    /\ messages' = messages @@ (msgSeq' :> NewMessage(msgSeq', conversations[c], role, content))
    /\ conversations' = [conversations EXCEPT ![c].updated_at = now]
    /\ res' = [Result("append_message", u, c) EXCEPT !.msgs = <<messages'[msgSeq']>>,
                                                    !.content = content]
    /\ UNCHANGED <<convSeq, now, thread_id_map, detectVars, respond, edgeVars, agentVars, turn>>

\* get_conversation_by_id(session, conversation_id, user_id)
GetConversationById(u, c) ==
    /\ res = NoResult
    /\ res' = IF SelectConversation(c, u) = {} THEN Result("get_conversation_by_id", u, c)
              ELSE [Result("get_conversation_by_id", u, c) EXCEPT
                       !.convs = {conversations[c]},
                       !.msgs = MessageRows(OrderByAsc(RelatedMessages(c)))]
    /\ UNCHANGED <<conversations, messages, convSeq, msgSeq, now, thread_id_map, detectVars, respond, edgeVars, agentVars, turn>>

\* list_recent_messages(session, conversation_id, user_id, limit)
ListRecentMessages(u, c, limit) ==
    /\ res = NoResult
    /\ res' = [Result("list_recent_messages", u, c) EXCEPT
                  !.limit = limit,
                  !.msgs = MessageRows(list_recent_messages(c, u, limit))]
    /\ UNCHANGED <<conversations, messages, convSeq, msgSeq, now, thread_id_map, detectVars, respond, edgeVars, agentVars, turn>>

\* get_full_history(session, conversation_id, user_id)
GetFullHistory(u, c) ==
    /\ res = NoResult
    /\ res' = [Result("get_full_history", u, c) EXCEPT
                  !.msgs = MessageRows(get_full_history(c, u))]
    /\ UNCHANGED <<conversations, messages, convSeq, msgSeq, now, thread_id_map, detectVars, respond, edgeVars, agentVars, turn>>

\* get_message_count(session, conversation_id, user_id)
GetMessageCount(u, c) ==
    /\ res = NoResult
    /\ res' = [Result("get_message_count", u, c) EXCEPT
                  !.count = get_message_count(c, u)]
    /\ UNCHANGED <<conversations, messages, convSeq, msgSeq, now, thread_id_map, detectVars, respond, edgeVars, agentVars, turn>>

\* update_conversation_title(session, conversation_id, user_id, title)
UpdateConversationTitle(u, c, title) ==
    /\ res = NoResult
    /\ IF SelectConversation(c, u) # {} THEN
          /\ conversations' = [conversations EXCEPT ![c].title = title,
                                                    ![c].updated_at = now]
          /\ res' = [Result("update_conversation_title", u, c) EXCEPT
                        !.convs = {conversations'[c]}]
       ELSE
          /\ res' = Result("update_conversation_title", u, c)
          /\ UNCHANGED conversations
    /\ UNCHANGED <<messages, convSeq, msgSeq, now, thread_id_map, detectVars, respond, edgeVars, agentVars, turn>>

\* delete_conversation(session, conversation_id, user_id)
DeleteConversation(u, c) ==
    /\ res = NoResult
    /\ messages' = [m \in DOMAIN messages \ SelectMessages(c, u) |-> messages[m]]
    /\ conversations' = [d \in DOMAIN conversations \ SelectConversation(c, u) |->
                            conversations[d]]
    /\ res' = [Result("delete_conversation", u, c) EXCEPT
                  !.ok = (Cardinality(SelectConversation(c, u)) > 0)]
    /\ UNCHANGED <<convSeq, msgSeq, now, thread_id_map, detectVars, respond, edgeVars, agentVars, turn>>

\* GET /api/{user_id}/chat/history?conversation_id=c
GetChatHistory(u, c) ==
    /\ res = NoResult
    /\ IF SelectConversation(c, u) = {} THEN
          \* 404 Conversation not found
          res' = Result("get_chat_history", u, c)
       ELSE
          res' = [Result("get_chat_history", u, c) EXCEPT
                     !.ok = TRUE,
                     !.msgs = MessageRows(get_full_history(c, u))]
    /\ UNCHANGED <<conversations, messages, convSeq, msgSeq, now, thread_id_map, detectVars, respond, edgeVars, agentVars, turn>>

InitConv == DetectIdle /\ AgentIdle /\ DbEmpty /\ ChatIdle

ConvIds == 1..MaxConvs

NextConv ==
    \/ Tick
    \/ ReturnResult
    \/ \E u \in Users : CreateNewConversation(u)
    \/ \E u \in Users : GetOrCreateConversation(u)
    \/ \E u \in Users, c \in ConvIds, role \in Roles :
          AppendMessage(u, c, role, ShortContent)
    \/ \E u \in Users, c \in ConvIds : GetConversationById(u, c)
    \/ \E u \in Users, c \in ConvIds, limit \in 1..MaxLimit : ListRecentMessages(u, c, limit)
    \/ \E u \in Users, c \in ConvIds : GetFullHistory(u, c)
    \/ \E u \in Users, c \in ConvIds : GetMessageCount(u, c)
    \/ \E u \in Users, c \in ConvIds : UpdateConversationTitle(u, c, Renamed)
    \/ \E u \in Users, c \in ConvIds : DeleteConversation(u, c)
    \/ \E u \in Users, c \in ConvIds : GetChatHistory(u, c)

SpecConv == InitConv /\ [][NextConv]_vars

\* The sliding window alone: conversations are obtained, messages are
\* appended while the clock may or may not advance, and the window is read.
NextRecent ==
    \/ Tick
    \/ ReturnResult
    \/ \E u \in Users : GetOrCreateConversation(u)
    \/ \E u \in Users, c \in ConvIds, role \in Roles :
          AppendMessage(u, c, role, ShortContent)
    \/ \E u \in Users, c \in ConvIds, limit \in 1..MaxLimit : ListRecentMessages(u, c, limit)

SpecRecent == InitConv /\ [][NextRecent]_vars

\* The default conversation alone: conversations are created, obtained and
\* appended to while the clock may or may not advance.
NextDefault ==
    \/ Tick
    \/ ReturnResult
    \/ \E u \in Users : CreateNewConversation(u)
    \/ \E u \in Users : GetOrCreateConversation(u)
    \/ \E u \in Users, c \in ConvIds : AppendMessage(u, c, "user", ShortContent)

SpecDefault == InitConv /\ [][NextDefault]_vars

\* Deletion alone: conversations are created and obtained, messages are
\* appended and conversations are deleted by their owner or by someone else.
NextDelete ==
    \/ ReturnResult
    \/ \E u \in Users : CreateNewConversation(u)
    \/ \E u \in Users : GetOrCreateConversation(u)
    \/ \E u \in Users, c \in ConvIds, role \in Roles :
          AppendMessage(u, c, role, ShortContent)
    \/ \E u \in Users, c \in ConvIds : DeleteConversation(u, c)

SpecDelete == InitConv /\ [][NextDelete]_vars

\* the contents append_message is called with: short, exactly at the limit
\* and one character over it
Contents == {ShortContent, LimitContent, LongContent}

\* Appends alone: conversations are obtained and messages of every length
\* are appended to them.
NextAppend ==
    \/ ReturnResult
    \/ \E u \in Users : GetOrCreateConversation(u)
    \/ \E u \in Users, c \in ConvIds, role \in Roles, content \in Contents :
          AppendMessage(u, c, role, content)

SpecAppend == InitConv /\ [][NextAppend]_vars

(***************************************************************************)
(* Properties of the conversation store.                                   *)
(***************************************************************************)
\* the rows a user owns
ConversationsOwnedBy(u) ==
    {conversations[c] : c \in {d \in DOMAIN conversations : conversations[d].user_id = u}}
MessagesOwnedBy(u) ==
    {messages[m] : m \in {k \in DOMAIN messages : messages[k].user_id = u}}

\* the stored messages of a user in a conversation
StoredMessages(conversation_id, u) ==
    {m \in DOMAIN messages :
        messages[m].conversation_id = conversation_id /\ messages[m].user_id = u}

IsolatedOps ==
    {"get_conversation_by_id", "list_recent_messages", "get_full_history",
     "get_message_count", "update_conversation_title", "delete_conversation",
     "get_chat_history"}

\* C5: whatever conversation id a user passes to get_conversation_by_id,
\* list_recent_messages, get_full_history, get_message_count,
\* update_conversation_title, delete_conversation or the chat history
\* endpoint, the result holds only conversations and messages of that user
\* (a count counts only that user's messages) and the conversations and
\* messages of every other user are left as they were.
C5_ConversationIsolation ==
    /\ [](res.op \in IsolatedOps =>
            /\ \A r \in res.convs : r.user_id = res.user_id
            /\ \A i \in 1..Len(res.msgs) : res.msgs[i].user_id = res.user_id
            /\ res.count <= Cardinality(StoredMessages(res.conversation_id, res.user_id)))
    /\ [][(res' # res /\ res'.op \in IsolatedOps) =>
            \A u \in Users \ {res'.user_id} :
                /\ ConversationsOwnedBy(u)' = ConversationsOwnedBy(u)
                /\ MessagesOwnedBy(u)' = MessagesOwnedBy(u)]_vars

C5_Witness ==
    /\ res.op = "delete_conversation"
    /\ res.conversation_id \in DOMAIN conversations
    /\ conversations[res.conversation_id].user_id # res.user_id
    /\ RelatedMessages(res.conversation_id) # {}
    /\ ConversationsOwnedBy(res.user_id) # {}

\* the case of C9: the window of a conversation has just been read
WindowRead == res.op = "list_recent_messages"
WindowStored == StoredMessages(res.conversation_id, res.user_id)
WindowIds == {res.msgs[i].id : i \in 1..Len(res.msgs)}

\* the window holds min(N, limit) stored messages of the conversation and
\* the user, and no stored message left out is newer than one returned
WindowIsNewest ==
    /\ Len(res.msgs) =
          IF Cardinality(WindowStored) < res.limit THEN Cardinality(WindowStored)
          ELSE res.limit
    /\ WindowIds \subseteq WindowStored
    /\ \A i \in 1..Len(res.msgs) : res.msgs[i] = messages[res.msgs[i].id]
    /\ \A m \in WindowStored \ WindowIds : \A k \in WindowIds :
          \/ messages[m].created_at < messages[k].created_at
          \/ messages[m].created_at = messages[k].created_at /\ m < k

\* C9 as stated: list_recent_messages returns the newest min(N, limit)
\* messages of the conversation in strictly increasing created_at order.
C9_WindowStrictlyIncreasingCreatedAt ==
    WindowRead =>
        /\ WindowIsNewest
        /\ \A i, j \in 1..Len(res.msgs) :
              i < j => res.msgs[i].created_at < res.msgs[j].created_at

\* C9 as amended: list_recent_messages returns the newest min(N, limit)
\* messages of the conversation, oldest first: created_at never decreases
\* along the list and messages with equal created_at are in increasing id
\* order.
C9_WindowOrderedByCreatedAtThenId ==
    WindowRead =>
        /\ WindowIsNewest
        /\ \A i, j \in 1..Len(res.msgs) :
              i < j =>
                  \/ res.msgs[i].created_at < res.msgs[j].created_at
                  \/ /\ res.msgs[i].created_at = res.msgs[j].created_at
                     /\ res.msgs[i].id < res.msgs[j].id

C9_Witness ==
    /\ WindowRead
    /\ Cardinality(WindowStored) > res.limit
    /\ Len(res.msgs) = res.limit
    /\ res.limit >= 2
    /\ res.msgs[1].created_at = res.msgs[2].created_at

(***************************************************************************)
(* A chat turn (routes/chat.py): POST /api/{user_id}/chat and              *)
(* POST /api/{user_id}/chat/stream.  Each await of the handler ends a      *)
(* step; run_agent runs as the steps of the agent section on call[p].      *)
(***************************************************************************)
ChatLimit == 20

Endpoints == {"send_chat_message", "generate_stream"}

\* the request.message values of the turns
ChatMessages == {DeleteAllTasks, ShowMeMyTasks}

\* the str a request or a response carries, as stored content
ContentOf(text) == Str(text, 1)

\* if msg.id != user_msg.id
ExcludeNothing(recent, user_msg_id) == recent
ExcludeCurrent(recent, user_msg_id) ==
    SelectSeq(recent, LAMBDA msg : msg.id # user_msg_id)

\* {"role": ..., "content": ...} for each message kept; the id of the row
\* each entry was built from is kept beside it
conversation_history(recent, user_msg_id) ==
    LET kept == ExcludeCurrent(recent, user_msg_id)
    IN  [i \in 1..Len(kept) |->
            [id |-> kept[i].id, role |-> kept[i].role, content |-> kept[i].content]]

\* the assistant message is appended whatever agent_response.error holds
PersistsUnlessError(agent_response) == agent_response.error = None
PersistsAssistant(agent_response) == TRUE

\* session.add(message); conversation.updated_at = now; commit
InsertMessage(c, role, content) ==
    /\ msgSeq' = msgSeq + 1
    /\ messages' = messages @@ (msgSeq' :> NewMessage(msgSeq', conversations[c], role, content))
    /\ conversations' = [conversations EXCEPT ![c].updated_at = now]

\* the events generate_stream yields once run_agent has returned
ResponseEventsThenToken(agent_response) ==
    [i \in 1..Len(agent_response.response_thinking) |-> "thinking"]
        \o (IF agent_response.error # None THEN <<"error", "token">> ELSE <<"token">>)
ResponseEvents(agent_response) ==
    [i \in 1..Len(agent_response.response_thinking) |-> "thinking"]
        \o (IF agent_response.error # None THEN <<"error">> ELSE <<"token">>)

\* the handler's request (ChatRequest: message, conversation_id,
\* confirm_token; 0 for an absent id or token)
Request(e, u, m, tok, c) ==
    [IdleTurn EXCEPT !.pc = "select", !.endpoint = e, !.user_id = u,
                     !.message = m, !.conversation_id = c,
                     !.has_token = (tok # 0), !.confirm_token = tok]

\* a request without conversation_id passes verify_user_access and the
\* handler starts
StartTurn(p) ==
    /\ turn[p].pc = "idle"
    /\ call[p].pc = "idle"
    /\ \A q \in Calls : q < p => turn[q].pc # "idle"
    /\ \E e \in Endpoints, u \in Users, m \in ChatMessages,
          tok \in 0..minted \cup {ForgedToken} :
          turn' = [turn EXCEPT ![p] = Request(e, u, m, tok, 0)]
    /\ UNCHANGED <<detectVars, respond, edgeVars, agentVars, dbVars>>

\* a request that may name a conversation
StartNamedTurn(p) ==
    /\ turn[p].pc = "idle"
    /\ call[p].pc = "idle"
    /\ \A q \in Calls : q < p => turn[q].pc # "idle"
    /\ \E e \in Endpoints, u \in Users, c \in {0} \cup ConvIds :
          turn' = [turn EXCEPT ![p] = Request(e, u, ShowMeMyTasks, 0, c)]
    /\ UNCHANGED <<detectVars, respond, edgeVars, agentVars, dbVars>>

\* get_or_create_conversation: the select
TurnSelectConversation(p) ==
    /\ turn[p].pc = "select"
    /\ IF MostRecentlyUpdated(turn[p].user_id) # {} THEN
          \E c \in MostRecentlyUpdated(turn[p].user_id) :
              turn' = [turn EXCEPT ![p] = [@ EXCEPT !.pc = "append_user",
                                                    !.conversation = c]]
       ELSE
          turn' = [turn EXCEPT ![p] = [@ EXCEPT !.pc = "create"]]
    /\ UNCHANGED <<detectVars, respond, edgeVars, agentVars, dbVars>>

\* get_or_create_conversation: no row was found, one is added and committed
TurnCreateConversation(p) ==
    /\ turn[p].pc = "create"
    /\ convSeq' = convSeq + 1
    /\ conversations' = conversations @@
          (convSeq' :> NewConversation(convSeq', turn[p].user_id, NoTitle))
    /\ turn' = [turn EXCEPT ![p] = [@ EXCEPT !.pc = "append_user",
                                             !.conversation = convSeq']]
    /\ UNCHANGED <<messages, msgSeq, now, res, thread_id_map, detectVars, respond, edgeVars, agentVars>>

\* append_message(session, conversation, "user", request.message);
\* generate_stream then yields the start event
TurnAppendUser(p) ==
    /\ turn[p].pc = "append_user"
    /\ InsertMessage(turn[p].conversation, "user", ContentOf(turn[p].message))
    /\ turn' = [turn EXCEPT ![p] =
          [@ EXCEPT !.pc = "list", !.user_msg = msgSeq',
                    !.events = IF turn[p].endpoint = "generate_stream"
                               THEN <<"start">> ELSE <<>>]]
    /\ UNCHANGED <<convSeq, now, res, thread_id_map, detectVars, respond, edgeVars, agentVars>>

\* list_recent_messages(limit=20), the history is built and run_agent is
\* called with it; generate_stream yields two thinking events in between
TurnRunAgent(p) ==
    /\ turn[p].pc = "list"
    /\ LET t == turn[p]
           recent_messages ==
               MessageRows(list_recent_messages(t.conversation, t.user_id, ChatLimit))
       IN  /\ call' = [call EXCEPT ![p] =
                [@ EXCEPT !.pc = "entry", !.user_id = t.user_id,
                          !.user_message = t.message,
                          !.conversation_history =
                              conversation_history(recent_messages, t.user_msg),
                          !.has_token = t.has_token,
                          !.confirm_token = t.confirm_token]]
           /\ turn' = [turn EXCEPT ![p] =
                [@ EXCEPT !.pc = "agent",
                          !.events = IF t.endpoint = "generate_stream"
                                     THEN @ \o <<"thinking", "thinking">> ELSE @]]
    /\ UNCHANGED <<pending, minted, detectVars, respond, edgeVars, dbVars>>

\* run_agent has returned: generate_stream yields its events, the
\* assistant message is appended, and the response or the done event is sent
TurnAppendAssistant(p) ==
    /\ turn[p].pc = "agent"
    /\ call[p].pc = "ret"
    /\ IF PersistsAssistant(call[p]) THEN
          /\ InsertMessage(turn[p].conversation, "assistant", ContentOf(call[p].response))
          /\ turn' = [turn EXCEPT ![p] =
                [@ EXCEPT !.pc = "done", !.assistant_msg = msgSeq',
                          !.events = IF turn[p].endpoint = "generate_stream"
                                     THEN @ \o ResponseEvents(call[p]) \o <<"done">>
                                     ELSE @]]
       ELSE
          /\ turn' = [turn EXCEPT ![p] = [@ EXCEPT !.pc = "done"]]
          /\ UNCHANGED <<messages, msgSeq, conversations>>
    /\ UNCHANGED <<convSeq, now, res, thread_id_map, detectVars, respond, edgeVars, agentVars>>

InitChat ==
    /\ DetectIdle
    /\ AgentIdle
    /\ DbEmpty
    /\ ChatIdle

NextChat ==
    \E p \in Calls :
        \/ StartTurn(p)
        \/ TurnSelectConversation(p)
        \/ TurnCreateConversation(p)
        \/ TurnAppendUser(p)
        \/ TurnRunAgent(p)
        \/ RunAgentEntry(p)
        \/ ListReturnsNothing(p)
        \/ ListReturnsTasks(p)
        \/ BulkReturns(p)
        \/ NormalReturns(p)
        \/ TurnAppendAssistant(p)

SpecChat == InitChat /\ [][NextChat]_vars

\* The client of generate_stream disconnects while the response text is
\* streamed: the generator is suspended after a token chunk (at the sleep
\* of the chunk loop) and is closed there; cancellation is not an
\* Exception, so the handler's except clause does not run, and neither
\* does anything after the loop
TurnCancelled(p) ==
    /\ turn[p].pc = "agent"
    /\ turn[p].endpoint = "generate_stream"
    /\ call[p].pc = "ret"
    /\ call[p].error = None
    /\ turn' = [turn EXCEPT ![p] =
          [@ EXCEPT !.pc = "cancelled",
                    !.events = @ \o ResponseEvents(call[p])]]
    /\ UNCHANGED <<detectVars, respond, edgeVars, agentVars, dbVars>>

\* Turns whose client may disconnect
NextCancel ==
    \E p \in Calls :
        \/ StartTurn(p)
        \/ TurnSelectConversation(p)
        \/ TurnCreateConversation(p)
        \/ TurnAppendUser(p)
        \/ TurnRunAgent(p)
        \/ RunAgentEntry(p)
        \/ ListReturnsNothing(p)
        \/ ListReturnsTasks(p)
        \/ BulkReturns(p)
        \/ NormalReturns(p)
        \/ TurnAppendAssistant(p)
        \/ TurnCancelled(p)

SpecCancel == InitChat /\ [][NextCancel]_vars

\* generate_stream between the return of run_agent and the end of the
\* stream, one step per stretch of code between two awaits
\* a streamed request without conversation_id and confirm_token
StartStreamTurn(p) ==
    /\ turn[p].pc = "idle"
    /\ call[p].pc = "idle"
    /\ \A q \in Calls : q < p => turn[q].pc # "idle"
    /\ \E u \in Users :
          turn' = [turn EXCEPT ![p] = Request("generate_stream", u, ShowMeMyTasks, 0, 0)]
    /\ UNCHANGED <<detectVars, respond, edgeVars, agentVars, dbVars>>

\* the thinking steps of the response and then the error event or the
\* token chunks are yielded; append_message is awaited next
StreamResponse(p) ==
    /\ turn[p].pc = "agent"
    /\ turn[p].endpoint = "generate_stream"
    /\ call[p].pc = "ret"
    /\ turn' = [turn EXCEPT ![p] =
          [@ EXCEPT !.pc = "persist", !.events = @ \o ResponseEvents(call[p])]]
    /\ UNCHANGED <<detectVars, respond, edgeVars, agentVars, dbVars>>

\* append_message(session, conversation, ASSISTANT, response) has committed
StreamPersist(p) ==
    /\ turn[p].pc = "persist"
    /\ InsertMessage(turn[p].conversation, "assistant", ContentOf(call[p].response))
    /\ turn' = [turn EXCEPT ![p] = [@ EXCEPT !.pc = "finish", !.assistant_msg = msgSeq']]
    /\ UNCHANGED <<convSeq, now, res, thread_id_map, detectVars, respond, edgeVars, agentVars>>

\* the done event is yielded and the generator returns
StreamDone(p) ==
    /\ turn[p].pc = "finish"
    /\ turn' = [turn EXCEPT ![p] = [@ EXCEPT !.pc = "done", !.events = @ \o <<"done">>]]
    /\ UNCHANGED <<detectVars, respond, edgeVars, agentVars, dbVars>>

\* the positions at which generate_stream awaits the database
DatabaseAwaits == {"select", "create", "append_user", "list", "persist"}

\* the awaited statement raises: except Exception yields one error event
StreamRaises(p) ==
    /\ turn[p].endpoint = "generate_stream"
    /\ turn[p].pc \in DatabaseAwaits
    /\ turn' = [turn EXCEPT ![p] = [@ EXCEPT !.pc = "failed", !.events = @ \o <<"error">>]]
    /\ UNCHANGED <<detectVars, respond, edgeVars, agentVars, dbVars>>

NextStream ==
    \E p \in Calls :
        \/ StartStreamTurn(p)
        \/ TurnSelectConversation(p)
        \/ TurnCreateConversation(p)
        \/ TurnAppendUser(p)
        \/ TurnRunAgent(p)
        \/ RunAgentEntry(p)
        \/ NormalReturns(p)
        \/ StreamResponse(p)
        \/ StreamPersist(p)
        \/ StreamDone(p)
        \/ StreamRaises(p)
        \/ TurnCancelled(p)

SpecStream == InitChat /\ [][NextStream]_vars

\* Turns that may name a conversation.  The users have opened the
\* conversations 1..MaxConvs one after another
\* (POST /api/{user_id}/conversations), one clock reading apart.
InitNamed ==
    /\ DetectIdle
    /\ AgentIdle
    /\ ChatIdle
    /\ now = MaxConvs - 1
    /\ \E owner \in [ConvIds -> Users] :
          conversations = [c \in ConvIds |->
              [NewConversation(c, owner[c], DefaultTitle) EXCEPT !.updated_at = c - 1]]
    /\ messages = << >>
    /\ convSeq = MaxConvs
    /\ msgSeq = 0
    /\ res = NoResult
    /\ thread_id_map = << >>

NextNamed ==
    \E p \in Calls :
        \/ StartNamedTurn(p)
        \/ TurnSelectConversation(p)
        \/ TurnCreateConversation(p)
        \/ TurnAppendUser(p)
        \/ TurnRunAgent(p)
        \/ RunAgentEntry(p)
        \/ NormalReturns(p)
        \/ TurnAppendAssistant(p)

SpecNamed == InitNamed /\ [][NextNamed]_vars

(***************************************************************************)
(* Properties of a chat turn.                                              *)
(***************************************************************************)
\* the messages turn p has appended
TurnMessages(p) == {turn[p].user_msg, turn[p].assistant_msg} \ {0}

\* message id is a stored row of turn p's conversation with this role and text
StoredAs(p, id, role, text) ==
    /\ id \in DOMAIN messages
    /\ messages[id].conversation_id = turn[p].conversation
    /\ messages[id].user_id = turn[p].user_id
    /\ messages[id].role = role
    /\ messages[id].content = ContentOf(text)

\* run_agent has been called by turn p
AgentInvoked(p) == turn[p].pc \in {"agent", "done"} /\ call[p].pc # "idle"

\* every stored message was appended by exactly one turn, as its user or as
\* its assistant message
AppendedOncePerTurn ==
    /\ DOMAIN messages = UNION {TurnMessages(p) : p \in Calls}
    /\ \A p, q \in Calls : p # q => TurnMessages(p) \cap TurnMessages(q) = {}
    /\ \A p \in Calls : turn[p].user_msg # turn[p].assistant_msg \/ turn[p].user_msg = 0

\* C8: in a non-streaming chat turn the user message is stored before
\* run_agent is invoked and the assistant message is stored only after
\* run_agent has returned; a completed turn has appended exactly one user
\* message and then exactly one assistant message to its conversation,
\* whether or not the agent response carries an error.
C8_UserThenAgentThenAssistant ==
    /\ AppendedOncePerTurn
    /\ \A p \in Calls :
          turn[p].endpoint = "send_chat_message" =>
              /\ call[p].pc # "idle" =>
                    StoredAs(p, turn[p].user_msg, "user", turn[p].message)
              /\ ~Returned(call[p]) => turn[p].assistant_msg = 0
              /\ turn[p].assistant_msg # 0 =>
                    StoredAs(p, turn[p].assistant_msg, "assistant", call[p].response)
              /\ turn[p].pc = "done" =>
                    /\ Cardinality(TurnMessages(p)) = 2
                    /\ StoredAs(p, turn[p].user_msg, "user", turn[p].message)
                    /\ StoredAs(p, turn[p].assistant_msg, "assistant", call[p].response)
                    /\ turn[p].user_msg < turn[p].assistant_msg
                    /\ messages[turn[p].user_msg].created_at
                          <= messages[turn[p].assistant_msg].created_at

C8_Witness ==
    \E p \in Calls :
        /\ turn[p].endpoint = "send_chat_message"
        /\ turn[p].pc = "done"
        /\ call[p].error # None
        /\ call[p].run # NoRun

\* C10: the conversation_history a chat endpoint passes to run_agent holds
\* no entry built from the user message of the current turn, and that
\* message is what the endpoint passes as user_message.
C10_HistoryExcludesCurrentMessage ==
    \A p \in Calls :
        AgentInvoked(p) =>
            /\ \A i \in 1..Len(call[p].conversation_history) :
                  /\ call[p].conversation_history[i].id # turn[p].user_msg
                  /\ call[p].conversation_history[i].id \in DOMAIN messages
                  /\ messages[call[p].conversation_history[i].id].conversation_id
                        = turn[p].conversation
            /\ call[p].user_message = turn[p].message
            /\ StoredAs(p, turn[p].user_msg, "user", call[p].user_message)

C10_Witness ==
    \E p, q \in Calls :
        /\ turn[p].endpoint = "send_chat_message"
        /\ turn[q].endpoint = "generate_stream"
        /\ AgentInvoked(p)
        /\ AgentInvoked(q)
        /\ Len(call[q].conversation_history) >= 2
        /\ \E i \in 1..Len(call[q].conversation_history) :
              call[q].conversation_history[i].content = ContentOf(turn[q].message)

(***************************************************************************)
(* Properties of append_message.                                           *)
(***************************************************************************)
\* the case of C11: append_message has just returned a message
Appended == res.op = "append_message"

\* C11: the message append_message stores for content longer than 4000
\* characters holds exactly the first 4000 characters of that content; for
\* content of at most 4000 characters (4000 included) it holds the content
\* unchanged.  The stored row is the returned one.
C11_TruncatesToFirst4000 ==
    Appended =>
        /\ Len(res.msgs) = 1
        /\ res.msgs[1].id \in DOMAIN messages
        /\ messages[res.msgs[1].id] = res.msgs[1]
        /\ IF res.content.len > MaxContent
           THEN res.msgs[1].content =
                    [text |-> res.content.text, from |-> res.content.from,
                     len |-> MaxContent]
           ELSE res.msgs[1].content = res.content

C11_Witness ==
    /\ Appended
    /\ res.content = LongContent
    /\ \E m \in DOMAIN messages : messages[m].content = LimitContent

(***************************************************************************)
(* The ChatKit store (chatkit/store.py): Thread = Conversation,            *)
(* Item = Message.  One TodoChatKitStore serves every request, so          *)
(* _thread_id_map is shared.  A thread id is str(n) for a conversation id  *)
(* n, or a temporary id "thread_<n>"; an item id is str(n) for a message   *)
(* id n, or a generated id, written 0.                                     *)
(***************************************************************************)
TitleLen == 100

Thread(n) == [temp |-> FALSE, n |-> n]
TempThread(n) == [temp |-> TRUE, n |-> n]
ThreadIds == {Thread(c) : c \in ConvIds} \cup {TempThread(1)}

EditedContent == Str("edited", 6)
ItemTypes == {"user_message", "assistant_message"}
ItemContents == {ShortContent, EditedContent, LongContent}
Items ==
    [id : 0..MaxMsgs, type : ItemTypes, content : ItemContents]

\* _extract_content(item): the text parts of the item joined
extract_content(item) == item.content

\* _thread_item_to_message(conversation_id, user_id, item)
thread_item_to_message(id, conversation_id, user_id, item) ==
    [id |-> id, user_id |-> user_id, conversation_id |-> conversation_id,
     role |-> IF item.type = "user_message" THEN "user" ELSE "assistant",
     content |-> extract_content(item), created_at |-> now]

\* the column messages.content is VARCHAR(4000): PostgreSQL refuses a longer
\* value when the row is flushed, SQLite stores it
ColumnAccepts(content, enforced) == ~enforced \/ content.len <= MaxContent

\* session.get(Conversation, conv_id) found a row of this user
OwnedConversation(convs, conv_id, user_id) ==
    conv_id \in DOMAIN convs /\ convs[conv_id].user_id = user_id

\* conversation.title[:100] is taken from the message when the title is
\* empty and the message is a user message
TitleAfter(conversation, message) ==
    IF conversation.title.len = 0 /\ message.role = "user"
    THEN Prefix(message.content, TitleLen)
    ELSE conversation.title

\* save_item's update of an existing row: message.content = ...
UpdateContent(message, item) == [message EXCEPT !.content = extract_content(item)]

\* a temporary thread id with no mapping and no usable conversation_id in
\* the URL: a conversation is created for it
CreatesConversation(u, thread_id, existing_conv_id) ==
    /\ thread_id.temp
    /\ thread_id.n \notin DOMAIN thread_id_map
    /\ ~(existing_conv_id # 0 /\ OwnedConversation(conversations, existing_conv_id, u))

\* add_thread_item(thread_id, item, context) for user u, with the
\* conversation_id of the URL (0 when absent)
AddThreadItemAs(op, u, thread_id, item, existing_conv_id, enforced) ==
    LET mapped == thread_id.temp /\ thread_id.n \in DOMAIN thread_id_map
        reuse == /\ thread_id.temp /\ ~mapped /\ existing_conv_id # 0
                 /\ OwnedConversation(conversations, existing_conv_id, u)
        create == CreatesConversation(u, thread_id, existing_conv_id)
        conv_id == IF ~thread_id.temp THEN thread_id.n
                   ELSE IF mapped THEN thread_id_map[thread_id.n]
                   ELSE IF reuse THEN existing_conv_id
                   ELSE convSeq + 1
        convs1 == IF create
                  THEN conversations @@ (conv_id :> NewConversation(conv_id, u, NoTitle))
                  ELSE conversations
        message == thread_item_to_message(msgSeq + 1, conv_id, u, item)
        result == [Result(op, u, conv_id) EXCEPT !.content = extract_content(item)]
    IN  /\ convSeq' = IF create THEN convSeq + 1 ELSE convSeq
        /\ thread_id_map' = IF thread_id.temp /\ ~mapped
                            THEN thread_id_map @@ (thread_id.n :> conv_id)
                            ELSE thread_id_map
        /\ IF ~OwnedConversation(convs1, conv_id, u) THEN
              \* Access denied
              /\ conversations' = convs1
              /\ res' = result
              /\ UNCHANGED <<messages, msgSeq>>
           ELSE IF ~ColumnAccepts(message.content, enforced) THEN
              \* the commit raises
              /\ conversations' = convs1
              /\ res' = [result EXCEPT !.error = "DataError"]
              /\ UNCHANGED <<messages, msgSeq>>
           ELSE
              /\ msgSeq' = msgSeq + 1
              /\ messages' = messages @@ (msgSeq' :> message)
              /\ conversations' =
                    [convs1 EXCEPT ![conv_id].title = TitleAfter(convs1[conv_id], message),
                                   ![conv_id].updated_at = now]
              /\ res' = [result EXCEPT !.ok = TRUE, !.msgs = <<message>>]

AddThreadItem(u, thread_id, item, existing_conv_id, enforced) ==
    /\ res = NoResult
    /\ msgSeq < MaxMsgs
    /\ CreatesConversation(u, thread_id, existing_conv_id) => convSeq < MaxConvs
    /\ AddThreadItemAs("add_thread_item", u, thread_id, item, existing_conv_id, enforced)
    /\ UNCHANGED <<now, detectVars, respond, edgeVars, agentVars, turn>>

\* save_item(thread_id, item, context): update the row the item id names,
\* or add the item
SaveItem(u, thread_id, item, existing_conv_id, enforced) ==
    /\ res = NoResult
    /\ msgSeq < MaxMsgs
    /\ CreatesConversation(u, thread_id, existing_conv_id) => convSeq < MaxConvs
    /\ IF /\ item.id \in DOMAIN messages
          /\ OwnedConversation(conversations, messages[item.id].conversation_id, u)
       THEN
          LET message == UpdateContent(messages[item.id], item)
              result == [Result("save_item", u, message.conversation_id) EXCEPT
                            !.content = extract_content(item)]
          IN  /\ IF ColumnAccepts(message.content, enforced) THEN
                    /\ messages' = [messages EXCEPT ![item.id] = message]
                    /\ res' = [result EXCEPT !.ok = TRUE, !.msgs = <<message>>]
                 ELSE
                    /\ res' = [result EXCEPT !.error = "DataError"]
                    /\ UNCHANGED messages
              /\ UNCHANGED <<conversations, convSeq, msgSeq, thread_id_map>>
       ELSE
          AddThreadItemAs("save_item", u, thread_id, item, existing_conv_id, enforced)
    /\ UNCHANGED <<now, detectVars, respond, edgeVars, agentVars, turn>>

\* save_thread(thread, context)
SaveThread(u, thread_id, title, existing_conv_id) ==
    /\ res = NoResult
    /\ CreatesConversation(u, thread_id, existing_conv_id) => convSeq < MaxConvs
    /\ IF ~thread_id.temp THEN
          /\ conversations' =
                IF OwnedConversation(conversations, thread_id.n, u)
                THEN [conversations EXCEPT
                        ![thread_id.n].title = IF title.len > 0 THEN title ELSE @,
                        ![thread_id.n].updated_at = now]
                ELSE conversations
          /\ res' = Result("save_thread", u, thread_id.n)
          /\ UNCHANGED <<convSeq, thread_id_map>>
       ELSE IF thread_id.n \in DOMAIN thread_id_map THEN
          /\ res' = Result("save_thread", u, thread_id_map[thread_id.n])
          /\ UNCHANGED <<conversations, convSeq, thread_id_map>>
       ELSE IF existing_conv_id # 0 /\ OwnedConversation(conversations, existing_conv_id, u) THEN
          /\ thread_id_map' = thread_id_map @@ (thread_id.n :> existing_conv_id)
          /\ res' = Result("save_thread", u, existing_conv_id)
          /\ UNCHANGED <<conversations, convSeq>>
       ELSE
          /\ convSeq' = convSeq + 1
          /\ conversations' = conversations @@ (convSeq' :> NewConversation(convSeq', u, title))
          /\ thread_id_map' = thread_id_map @@ (thread_id.n :> convSeq')
          /\ res' = Result("save_thread", u, convSeq')
    /\ UNCHANGED <<messages, msgSeq, now, detectVars, respond, edgeVars, agentVars, turn>>

\* delete_thread_item(thread_id, item_id, context)
DeleteThreadItem(u, item_id) ==
    /\ res = NoResult
    /\ IF /\ item_id \in DOMAIN messages
          /\ OwnedConversation(conversations, messages[item_id].conversation_id, u)
       THEN /\ messages' = [m \in DOMAIN messages \ {item_id} |-> messages[m]]
            /\ res' = [Result("delete_thread_item", u, messages[item_id].conversation_id)
                          EXCEPT !.ok = TRUE]
       ELSE /\ res' = Result("delete_thread_item", u, 0)
            /\ UNCHANGED messages
    /\ UNCHANGED <<conversations, convSeq, msgSeq, now, thread_id_map, detectVars, respond, edgeVars, agentVars, turn>>

\* delete_thread(thread_id, context)
DeleteThread(u, thread_id) ==
    /\ res = NoResult
    /\ LET known == ~thread_id.temp \/ thread_id.n \in DOMAIN thread_id_map
           conv_id == IF ~thread_id.temp THEN thread_id.n
                      ELSE IF known THEN thread_id_map[thread_id.n] ELSE 0
       IN  IF known /\ OwnedConversation(conversations, conv_id, u) THEN
              /\ messages' = [m \in DOMAIN messages \ RelatedMessages(conv_id) |-> messages[m]]
              /\ conversations' = [c \in DOMAIN conversations \ {conv_id} |-> conversations[c]]
              /\ thread_id_map' = [k \in {j \in DOMAIN thread_id_map : thread_id_map[j] # conv_id}
                                      |-> thread_id_map[k]]
              /\ res' = [Result("delete_thread", u, conv_id) EXCEPT !.ok = TRUE]
           ELSE
              /\ res' = Result("delete_thread", u, conv_id)
              /\ UNCHANGED <<conversations, messages, thread_id_map>>
    /\ UNCHANGED <<convSeq, msgSeq, now, detectVars, respond, edgeVars, agentVars, turn>>

\* the conversation_id of the URL is read for temporary thread ids only
UrlConversationIds(t) == IF t.temp THEN {0} \cup ConvIds ELSE {0}

\* the two backends differ on over-long content only
Backends(item) == IF item.content.len > MaxContent THEN BOOLEAN ELSE {FALSE}

NextStore ==
    \/ ReturnResult
    \/ \E u \in Users, c \in ConvIds, role \in Roles, content \in {ShortContent, LongContent} :
          AppendMessage(u, c, role, content)
    \/ \E u \in Users, t \in ThreadIds, item \in Items :
          \E e \in UrlConversationIds(t), enforced \in Backends(item) :
              AddThreadItem(u, t, item, e, enforced)
    \/ \E u \in Users, t \in ThreadIds, item \in Items :
          \E e \in UrlConversationIds(t), enforced \in Backends(item) :
              SaveItem(u, t, item, e, enforced)
    \/ \E u \in Users, t \in ThreadIds, title \in {NoTitle, Renamed} :
          \E e \in UrlConversationIds(t) : SaveThread(u, t, title, e)
    \/ \E u \in Users, m \in 1..MaxMsgs : DeleteThreadItem(u, m)
    \/ \E u \in Users, t \in ThreadIds : DeleteThread(u, t)

SpecStore == InitConv /\ [][NextStore]_vars

(***************************************************************************)
(* Properties of stored messages.                                          *)
(***************************************************************************)
\* C12: every stored message has content of at most 4000 characters
\* whichever write path created or changed it, and no write path refuses
\* over-long content: it is truncated.
C12_StoredContentAtMost4000 ==
    /\ \A m \in DOMAIN messages : messages[m].content.len <= MaxContent
    /\ res.error = None
    /\ (res.ok /\ res.op \in {"append_message", "add_thread_item", "save_item"}) =>
          res.msgs[1].content = Truncate(res.content)

\* C13: a message that exists before and after a step has the same role and
\* the same content after it: no operation updates an existing message.
C13_MessagesImmutable ==
    [][\A m \in DOMAIN messages \cap DOMAIN messages' :
          /\ messages'[m].role = messages[m].role
          /\ messages'[m].content = messages[m].content]_vars

\* the title of conversation c before the step (none for one the step creates)
TitleBefore(c) == IF c \in DOMAIN conversations THEN conversations[c].title ELSE NoTitle

\* the user messages of conversation c before the step
UserMessagesBefore(c) ==
    {m \in DOMAIN messages : messages[m].conversation_id = c /\ messages[m].role = "user"}

\* C14: a step that appends the first user message to a conversation
\* without a title sets the title to the first 100 characters of that
\* message; a step that appends to a conversation with a title leaves the
\* title as it was.
C14_TitleFromFirstUserMessage ==
    [][msgSeq' = msgSeq + 1 =>
          LET message == messages'[msgSeq']
              c == message.conversation_id
          IN  /\ (/\ message.role = "user"
                  /\ TitleBefore(c).len = 0
                  /\ UserMessagesBefore(c) = {}) =>
                     conversations'[c].title = Prefix(message.content, TitleLen)
              /\ TitleBefore(c).len > 0 =>
                     conversations'[c].title = TitleBefore(c)]_vars

(***************************************************************************)
(* Properties of the default conversation.                                 *)
(***************************************************************************)
\* the conversations of user u, before the step
OwnConversations(u) == {d \in DOMAIN conversations : conversations[d].user_id = u}

C16_DeleteCascadesOrRefuses ==
    [][(res = NoResult /\ res'.op = "delete_conversation") =>
          LET u == res'.user_id
              c == res'.conversation_id
          IN  IF c \in DOMAIN conversations /\ conversations[c].user_id = u THEN
                  /\ res'.ok
                  /\ DOMAIN conversations' = DOMAIN conversations \ {c}
                  /\ DOMAIN messages' =
                        {m \in DOMAIN messages : messages[m].conversation_id # c}
                  /\ \A d \in DOMAIN conversations' : conversations'[d] = conversations[d]
                  /\ \A m \in DOMAIN messages' : messages'[m] = messages[m]
              ELSE
                  /\ ~res'.ok
                  /\ conversations' = conversations
                  /\ messages' = messages]_vars

C16_Witness ==
    /\ res.op = "delete_conversation"
    /\ res.ok
    /\ res.conversation_id \notin DOMAIN conversations
    /\ Cardinality(DOMAIN messages) + 2 <= msgSeq
    /\ messages # << >>

(***************************************************************************)
(* Properties of run_agent's error handling.                               *)
(***************************************************************************)
GenericMessages ==
    {"Failed to execute bulk operation. Please try again.",
     "I encountered an error processing your request. Please try again."}

\* the runtime invocation of call c raised
RuntimeRaised(c) == c.raised

\* the response carries the thinking steps accumulated before the exception
CarriesThinkingSteps(c) ==
    /\ c.response_thinking = c.thinking_steps
    /\ Len(c.response_thinking) >= 2
    /\ c.response_thinking[1] = "analyzing"

\* C17 as stated: whenever the runtime invocation raises (bulk check,
\* confirmed execution or normal execution), run_agent returns a generic
\* message, a non-null error and the thinking steps accumulated so far.
C17_EveryRuntimeExceptionReported ==
    \A p \in Calls :
        RuntimeRaised(call[p]) =>
            /\ Returned(call[p])
            /\ call[p].response \in GenericMessages
            /\ call[p].error # None
            /\ CarriesThinkingSteps(call[p])

\* C17 as amended: run_agent never raises; an exception of the confirmed or
\* of the normal execution yields a generic message, a non-null error and
\* the thinking steps accumulated so far, while an exception of the bulk
\* check's listing yields the "no tasks" response with those thinking steps
\* and no error, and mints no token.
C17_ExceptionsCaughtListingSilently ==
    \A p \in Calls :
        /\ call[p].pc \in {"idle", "entry", "list", "bulk", "normal", "ret"}
        /\ RuntimeRaised(call[p]) =>
              /\ Returned(call[p])
              /\ CarriesThinkingSteps(call[p])
              /\ call[p].confirmation_required = NoRequest
              /\ IF call[p].run.agent = "Task Lister" THEN
                    /\ call[p].response = "You don't have any tasks to perform this action on."
                    /\ call[p].error = None
                 ELSE
                    /\ call[p].response \in GenericMessages
                    /\ call[p].error # None

C17_Witness ==
    \E p, q \in Calls :
        /\ RuntimeRaised(call[p])
        /\ call[p].run.agent = "Task Lister"
        /\ RuntimeRaised(call[q])
        /\ call[q].run.agent = "Task Management Assistant"
        /\ Len(call[q].response_thinking) = 4

(***************************************************************************)
(* Properties of the conversation a chat turn uses.                        *)
(***************************************************************************)
\* turn p's request names a conversation of its user
NamesOwnConversation(p) ==
    /\ turn[p].conversation_id \in DOMAIN conversations
    /\ conversations[turn[p].conversation_id].user_id = turn[p].user_id

\* C18: a chat turn whose request names a conversation_id owned by the
\* caller appends its user and assistant messages to that conversation and
\* reports that id (the id of the conversation object the handler holds).
C18_NamedConversationUsed ==
    \A p \in Calls :
        (NamesOwnConversation(p) /\ turn[p].conversation # 0) =>
            /\ turn[p].conversation = turn[p].conversation_id
            /\ \A m \in TurnMessages(p) :
                  messages[m].conversation_id = turn[p].conversation_id

(***************************************************************************)
(* TodoChatKitServer.respond (chatkit/server.py).  A text is a sequence of *)
(* characters; the runtime's stream is any sequence of text deltas and     *)
(* message-output items, each belonging to one of the run's messages.      *)
(***************************************************************************)
\* the messages of a run (the ids of its message_output_items) and the text
\* ItemHelpers.text_message_output gives for each
RunMessages == {1, 2}
MessageText(m) == IF m = 1 THEN <<"a", "b">> ELSE <<"c">>

\* event.data.delta of a ResponseTextDeltaEvent
Deltas == {<<>>, <<"a">>, <<"b">>, <<"c">>}

\* str(result.final_output)
FinalOutputs == {<<>>, <<"c">>}

FallbackText == <<"I'm sorry, I wasn't able to generate a response. Please try again.">>
ErrorText == <<"I apologize, but I encountered an error: str(e). Please try again.">>

\* text.startswith(full_content)
StartsWith(text, prefix) ==
    Len(prefix) <= Len(text) /\ SubSeq(text, 1, Len(prefix)) = prefix

\* text[len(full_content):] if text.startswith(full_content) else text
NewText(text, full_content) ==
    IF StartsWith(text, full_content)
    THEN SubSeq(text, Len(full_content) + 1, Len(text))
    ELSE text

\* if received_streaming_deltas: skip the message_output_item
SkipsNothing(received_streaming_deltas) == FALSE
SkipsAfterDeltas(received_streaming_deltas) == received_streaming_deltas

ThreadItemAdded(text) == [type |-> "thread.item.added", text |-> text]
ThreadItemUpdated(delta) == [type |-> "thread.item.updated", text |-> delta]
ThreadItemDone(text) == [type |-> "thread.item.done", text |-> text]

\* one entry of the log: the runtime event and the delta respond yielded for it
Logged(kind, m, text, emitted) ==
    [kind |-> kind, message |-> m, text |-> text, emitted |-> emitted]

\* respond is called; without message text it returns at once, otherwise
\* the run is started and the empty assistant item is announced
RespondStart ==
    /\ respond.pc = "idle"
    /\ \E has_text \in BOOLEAN :
          respond' = IF has_text
                     THEN [respond EXCEPT !.pc = "stream",
                                          !.events = <<ThreadItemAdded(<<>>)>>]
                     ELSE [respond EXCEPT !.pc = "done"]
    /\ UNCHANGED <<detectVars, edgeVars, agentVars, dbVars, turn>>

\* raw_response_event carrying a ResponseTextDeltaEvent of message m
RuntimeTextDelta(m, delta_text) ==
    /\ respond.pc = "stream"
    /\ Len(respond.log) < MaxEvents
    /\ respond' =
          IF delta_text # <<>> THEN
              [respond EXCEPT
                  !.received_streaming_deltas = TRUE,
                  !.full_content = @ \o delta_text,
                  !.item_text = respond.full_content \o delta_text,
                  !.events = Append(@, ThreadItemUpdated(delta_text)),
                  !.log = Append(@, Logged("delta", m, delta_text, delta_text))]
          ELSE
              [respond EXCEPT !.log = Append(@, Logged("delta", m, delta_text, <<>>))]
    /\ UNCHANGED <<detectVars, edgeVars, agentVars, dbVars, turn>>

\* run_item_stream_event carrying the message_output_item of message m
RuntimeMessageOutput(m) ==
    /\ respond.pc = "stream"
    /\ Len(respond.log) < MaxEvents
    /\ LET text == MessageText(m)
           skipped == [respond EXCEPT
                          !.log = Append(@, Logged("message_output", m, text, <<>>))]
       IN  respond' =
              IF m \in respond.processed_message_output_ids THEN skipped
              ELSE IF SkipsAfterDeltas(respond.received_streaming_deltas) THEN
                  [skipped EXCEPT !.processed_message_output_ids = @ \cup {m}]
              ELSE IF text # <<>> /\ text # respond.full_content THEN
                  LET new_text == NewText(text, respond.full_content) IN
                  [respond EXCEPT
                      !.processed_message_output_ids = @ \cup {m},
                      !.full_content = text,
                      !.item_text = text,
                      !.events = IF new_text # <<>>
                                 THEN Append(@, ThreadItemUpdated(new_text)) ELSE @,
                      !.log = Append(@, Logged("message_output", m, text, new_text))]
              ELSE
                  [skipped EXCEPT !.processed_message_output_ids = @ \cup {m}]
    /\ UNCHANGED <<detectVars, edgeVars, agentVars, dbVars, turn>>

\* the stream ends: final_output is used when nothing was collected, the
\* fallback message when there is still nothing, and the done event follows
RespondFinish ==
    /\ respond.pc = "stream"
    /\ \E final_output \in FinalOutputs :
          LET use_final == respond.full_content = <<>> /\ final_output # <<>>
              full_content == IF use_final THEN final_output ELSE respond.full_content
              item_text == IF full_content # <<>> THEN full_content
                           ELSE IF respond.item_text = <<>> THEN FallbackText
                           ELSE respond.item_text
              events == IF use_final
                        THEN Append(respond.events, ThreadItemUpdated(final_output))
                        ELSE respond.events
          IN  respond' = [respond EXCEPT
                             !.pc = "done",
                             !.full_content = IF item_text = FallbackText
                                              THEN FallbackText ELSE full_content,
                             !.item_text = item_text,
                             !.events = Append(events, ThreadItemDone(item_text))]
    /\ UNCHANGED <<detectVars, edgeVars, agentVars, dbVars, turn>>

\* the connection or the run raises: an error item is announced and closed
RespondRaises ==
    /\ respond.pc = "stream"
    /\ respond' = [respond EXCEPT
                      !.pc = "done",
                      !.events = @ \o <<ThreadItemAdded(ErrorText), ThreadItemDone(ErrorText)>>]
    /\ UNCHANGED <<detectVars, edgeVars, agentVars, dbVars, turn>>

InitRespond == DetectIdle /\ AgentIdle /\ DbEmpty /\ ChatIdle

NextRespond ==
    \/ RespondStart
    \/ \E m \in RunMessages, delta_text \in Deltas : RuntimeTextDelta(m, delta_text)
    \/ \E m \in RunMessages : RuntimeMessageOutput(m)
    \/ RespondFinish
    \/ RespondRaises

SpecRespond == InitRespond /\ [][NextRespond]_vars

(***************************************************************************)
(* Properties of respond.                                                  *)
(***************************************************************************)
\* text of message m was yielded through a delta before log entry i
EmittedByDeltaBefore(m, i) ==
    \E j \in 1..(i - 1) :
        /\ respond.log[j].kind = "delta"
        /\ respond.log[j].message = m
        /\ respond.log[j].emitted # <<>>

\* the message_output_item of message m was consumed before log entry i
OutputSeenBefore(m, i) ==
    \E j \in 1..(i - 1) :
        /\ respond.log[j].kind = "message_output"
        /\ respond.log[j].message = m

\* C19: for every sequence of runtime events, the message_output_item of a
\* message whose text was already yielded through text deltas makes respond
\* yield nothing, and a message_output_item that was consumed before makes
\* it yield nothing either.
C19_NoReemissionAfterDeltas ==
    \A i \in 1..Len(respond.log) :
        (/\ respond.log[i].kind = "message_output"
         /\ \/ EmittedByDeltaBefore(respond.log[i].message, i)
            \/ OutputSeenBefore(respond.log[i].message, i)) =>
            respond.log[i].emitted = <<>>

C19_Witness ==
    /\ Len(respond.log) = 3
    /\ respond.log[1].kind = "delta"
    /\ respond.log[1].message = 1
    /\ respond.log[1].emitted = <<"a">>
    /\ respond.log[2].kind = "delta"
    /\ respond.log[2].message = 1
    /\ respond.log[2].emitted = <<"b">>
    /\ respond.log[3].kind = "message_output"
    /\ respond.log[3].message = 1
    /\ respond.pc = "done"

(***************************************************************************)
(* Properties of a cancelled stream.                                       *)
(***************************************************************************)
\* C20: when the client cancels a streamed turn after assistant text was
\* emitted, that text is stored as an assistant message of the turn's
\* conversation, after the turn's user message.
C20_CancelledTurnPersistsPartialContent ==
    \A p \in Calls :
        (turn[p].pc = "cancelled" /\ \E i \in DOMAIN turn[p].events :
                                         turn[p].events[i] = "token") =>
            \E m \in DOMAIN messages :
                /\ m > turn[p].user_msg
                /\ messages[m].conversation_id = turn[p].conversation
                /\ messages[m].role = "assistant"

\* the deltas of the thread.item.updated events among the first n events,
\* concatenated in order
RECURSIVE EmittedText(_)
EmittedText(n) ==
    IF n = 0 THEN <<>>
    ELSE EmittedText(n - 1) \o
         (IF respond.events[n].type = "thread.item.updated"
          THEN respond.events[n].text ELSE <<>>)

\* respond has finished without raising: its last event closes the assistant item
ClosedAssistantItem ==
    /\ respond.pc = "done"
    /\ respond.events # <<>>
    /\ respond.events[Len(respond.events)].type = "thread.item.done"
    /\ respond.events[Len(respond.events)].text # ErrorText

\* C27: the text of the assistant item carried by the final done event is
\* the in-order concatenation of all text deltas yielded during the turn,
\* unless nothing was yielded and the fallback message is used.
C27_DoneTextIsConcatenationOfDeltas ==
    ClosedAssistantItem =>
        LET done == respond.events[Len(respond.events)]
            emitted == EmittedText(Len(respond.events))
        IN  \/ done.text = emitted
            \/ emitted = <<>> /\ done.text = FallbackText

(***************************************************************************)
(* Properties of interleaved chat turns.                                   *)
(***************************************************************************)
\* turn p has its conversation
HasConversation(p) == turn[p].conversation # 0

\* C28: the interleaved turns of a user who had no conversation leave that
\* user with one conversation, and the turns append their messages to it.
C28_OneConversationForInterleavedTurns ==
    /\ \A u \in Users :
          Cardinality({c \in DOMAIN conversations : conversations[c].user_id = u}) <= 1
    /\ \A p, q \in Calls :
          (/\ HasConversation(p) /\ HasConversation(q)
           /\ turn[p].user_id = turn[q].user_id) =>
              turn[p].conversation = turn[q].conversation

(***************************************************************************)
(* save_thread and add_thread_item of the shared store, one step per       *)
(* stretch of code between two awaits, for temporary thread ids.           *)
(***************************************************************************)
StoreOps == {"save_thread", "add_thread_item"}
TempThreadIds == {1, 2}

\* what follows once the call knows its conversation: save_thread returns,
\* add_thread_item goes on to verify access
AfterResolve(op) == IF op = "save_thread" THEN "done" ELSE "verify"

\* the call is made and runs to its first await: a cached mapping is used,
\* the conversation of the URL is fetched, or a conversation is added
StoreCallEntry(p, op, u, t, e) ==
    /\ store_call[p].pc = "idle"
    /\ \A q \in Calls : q < p => store_call[q].pc # "idle"
    /\ LET c == [IdleStoreCall EXCEPT !.op = op, !.user_id = u, !.thread_id = t,
                                      !.existing_conv_id = e]
       IN  store_call' = [store_call EXCEPT ![p] =
              IF t \in DOMAIN thread_id_map
              THEN [c EXCEPT !.pc = AfterResolve(op), !.conv_id = thread_id_map[t]]
              ELSE IF e # 0 THEN [c EXCEPT !.pc = "get_existing"]
              ELSE [c EXCEPT !.pc = "commit"]]
    /\ UNCHANGED <<rateVars, authVars, taskVars>>
    /\ UNCHANGED <<detectVars, respond, agentVars, dbVars, turn>>

\* session.get(Conversation, existing_conv_id) has returned
StoreGetExisting(p) ==
    /\ store_call[p].pc = "get_existing"
    /\ LET c == store_call[p] IN
       IF OwnedConversation(conversations, c.existing_conv_id, c.user_id) THEN
          /\ thread_id_map' = [k \in DOMAIN thread_id_map \cup {c.thread_id} |->
                                  IF k = c.thread_id THEN c.existing_conv_id
                                  ELSE thread_id_map[k]]
          /\ store_call' = [store_call EXCEPT ![p] =
                [c EXCEPT !.pc = AfterResolve(c.op), !.conv_id = c.existing_conv_id]]
       ELSE
          /\ store_call' = [store_call EXCEPT ![p] = [c EXCEPT !.pc = "commit"]]
          /\ UNCHANGED thread_id_map
    /\ UNCHANGED <<conversations, messages, convSeq, msgSeq, now, res>>
    /\ UNCHANGED <<rateVars, authVars, taskVars>>
    /\ UNCHANGED <<detectVars, respond, agentVars, turn>>

\* session.add(conversation); await session.commit(): the row is inserted
StoreCommitConversation(p) ==
    /\ store_call[p].pc = "commit"
    /\ convSeq < MaxConvs
    /\ convSeq' = convSeq + 1
    /\ conversations' = conversations @@
          (convSeq' :> NewConversation(convSeq', store_call[p].user_id, NoTitle))
    /\ store_call' = [store_call EXCEPT ![p] =
          [@ EXCEPT !.pc = "refresh", !.created = convSeq']]
    /\ UNCHANGED <<messages, msgSeq, now, res, thread_id_map>>
    /\ UNCHANGED <<rateVars, authVars, taskVars>>
    /\ UNCHANGED <<detectVars, respond, agentVars, turn>>

\* await session.refresh(conversation) has returned:
\* self._thread_id_map[thread_id] = conversation.id
StoreMapCreated(p) ==
    /\ store_call[p].pc = "refresh"
    /\ LET c == store_call[p] IN
       /\ thread_id_map' = [k \in DOMAIN thread_id_map \cup {c.thread_id} |->
                               IF k = c.thread_id THEN c.created ELSE thread_id_map[k]]
       /\ store_call' = [store_call EXCEPT ![p] =
             [c EXCEPT !.pc = AfterResolve(c.op), !.conv_id = c.created]]
    /\ UNCHANGED <<conversations, messages, convSeq, msgSeq, now, res>>
    /\ UNCHANGED <<rateVars, authVars, taskVars>>
    /\ UNCHANGED <<detectVars, respond, agentVars, turn>>

\* add_thread_item: access is verified and the message is added and
\* committed; the title and updated_at follow
StoreVerifyAndAdd(p, item) ==
    /\ store_call[p].pc = "verify"
    /\ msgSeq < MaxMsgs
    /\ LET c == store_call[p]
           message == thread_item_to_message(msgSeq + 1, c.conv_id, c.user_id, item)
       IN  IF ~OwnedConversation(conversations, c.conv_id, c.user_id) THEN
              /\ store_call' = [store_call EXCEPT ![p] = [c EXCEPT !.pc = "done"]]
              /\ UNCHANGED <<conversations, messages, msgSeq>>
           ELSE
              /\ msgSeq' = msgSeq + 1
              /\ messages' = messages @@ (msgSeq' :> message)
              /\ conversations' =
                    [conversations EXCEPT
                        ![c.conv_id].title = TitleAfter(conversations[c.conv_id], message),
                        ![c.conv_id].updated_at = now]
              /\ store_call' = [store_call EXCEPT ![p] =
                    [c EXCEPT !.pc = "done", !.message = msgSeq']]
    /\ UNCHANGED <<convSeq, now, res, thread_id_map>>
    /\ UNCHANGED <<rateVars, authVars, taskVars>>
    /\ UNCHANGED <<detectVars, respond, agentVars, turn>>

NextRace ==
    \E p \in Calls :
        \/ \E op \in StoreOps, u \in Users, t \in TempThreadIds, e \in {0} \cup ConvIds :
              StoreCallEntry(p, op, u, t, e)
        \/ StoreGetExisting(p)
        \/ StoreCommitConversation(p)
        \/ StoreMapCreated(p)
        \/ StoreVerifyAndAdd(p, [id |-> 0, type |-> "user_message", content |-> ShortContent])

SpecRace == InitConv /\ [][NextRace]_vars

(***************************************************************************)
(* Properties of the shared thread id map.                                 *)
(***************************************************************************)
\* C29: at most one conversation is created for a temporary thread id, also
\* when the calls for it interleave; the conversation a call resolved for
\* the thread id is the one the map holds; and a message added through the
\* map lies in a conversation of the user who added it.
C29_OneConversationPerTempThread ==
    /\ \A t \in TempThreadIds :
          Cardinality({store_call[p].created :
                          p \in {q \in Calls : /\ store_call[q].thread_id = t
                                               /\ store_call[q].created # 0}}) <= 1
    /\ \A p \in Calls :
          (store_call[p].conv_id # 0 /\ store_call[p].thread_id \in DOMAIN thread_id_map) =>
              thread_id_map[store_call[p].thread_id] = store_call[p].conv_id
    /\ \A p \in Calls :
          store_call[p].message # 0 =>
              conversations[messages[store_call[p].message].conversation_id].user_id
                  = store_call[p].user_id

(***************************************************************************)
(* Properties of the event stream of generate_stream.                      *)
(***************************************************************************)
\* the positions of the events of one type in the stream of turn p
EventsOf(p, type) == {i \in DOMAIN turn[p].events : turn[p].events[i] = type}

\* the stream of turn p has ended and no exception was raised
StreamCompleted(p) == turn[p].endpoint = "generate_stream" /\ turn[p].pc = "done"

\* C30: in every stream the start event, sent once the conversation is
\* known, precedes every thinking, tool_call and token event; a stream in
\* which no exception was raised has a start event and ends with its only
\* done event; and when the agent response carries an error the stream has
\* an error event and no token event, and the assistant message is stored
\* before done is sent.
C30_StreamEventOrder ==
    \A p \in Calls :
        turn[p].endpoint = "generate_stream" =>
            /\ \A i \in EventsOf(p, "thinking") \cup EventsOf(p, "tool_call")
                        \cup EventsOf(p, "token") :
                  \E j \in EventsOf(p, "start") : j < i
            /\ EventsOf(p, "start") # {} =>
                  /\ EventsOf(p, "start") = {1}
                  /\ turn[p].conversation \in DOMAIN conversations
            /\ EventsOf(p, "done") # {} => StreamCompleted(p)
            /\ StreamCompleted(p) =>
                  /\ EventsOf(p, "start") # {}
                  /\ EventsOf(p, "done") = {Len(turn[p].events)}
            /\ (turn[p].pc \in {"finish", "done"} /\ call[p].error # None) =>
                  /\ EventsOf(p, "error") # {}
                  /\ EventsOf(p, "token") = {}
                  /\ turn[p].assistant_msg \in DOMAIN messages
                  /\ messages[turn[p].assistant_msg].role = "assistant"
                  /\ messages[turn[p].assistant_msg].conversation_id = turn[p].conversation

C30_Witness ==
    \E p \in Calls :
        /\ StreamCompleted(p)
        /\ call[p].error # None
        /\ EventsOf(p, "error") # {}
        /\ turn[p].assistant_msg \in DOMAIN messages

(***************************************************************************)
(* check_rate_limit (middleware/rate_limit.py).  Time is in seconds.       *)
(***************************************************************************)
RATE_LIMIT_REQUESTS == 60
RATE_LIMIT_WINDOW == 60

\* the clock advances by half a window at a time
SleepStep == RATE_LIMIT_WINDOW \div 2

\* if current_time > reset_time
WindowExpiredAtReset(current_time, reset_time) == current_time >= reset_time
WindowExpired(current_time, reset_time) == current_time > reset_time

\* if count >= RATE_LIMIT_REQUESTS
LimitExceededAbove(count) == count > RATE_LIMIT_REQUESTS
LimitExceeded(count) == count >= RATE_LIMIT_REQUESTS

\* rate_limit_storage[user_id] = (count, reset_time)
Stored(storage, user_id, count, reset_time) ==
    [u \in DOMAIN storage \cup {user_id} |->
        IF u = user_id THEN [count |-> count, reset_time |-> reset_time]
        ELSE storage[u]]

\* the calls of user_id counted since its window was opened, this one
\* included; a call after the window's reset_time opens the next window
CallsInWindow(user_id) ==
    IF user_id \in DOMAIN windows /\ clock <= windows[user_id].opened + RATE_LIMIT_WINDOW
    THEN [opened |-> windows[user_id].opened, calls |-> windows[user_id].calls + 1]
    ELSE [opened |-> clock, calls |-> 1]

\* time passes
Sleep ==
    /\ clock < MaxSleeps * SleepStep
    /\ clock' = clock + SleepStep
    /\ UNCHANGED <<rate_limit_storage, windows, limited, authVars, taskVars, storeVars>>
    /\ UNCHANGED <<detectVars, respond, agentVars, dbVars, turn>>

check_rate_limit(user_id) ==
    /\ CallsInWindow(user_id).calls <= RATE_LIMIT_REQUESTS + MaxBlocked
    /\ LET current_time == clock
           called(is_allowed, remaining, reset_time) ==
               [user_id |-> user_id, current_time |-> current_time,
                before |-> rate_limit_storage, calls |-> CallsInWindow(user_id).calls,
                is_allowed |-> is_allowed, remaining |-> remaining,
                reset_time |-> reset_time]
       IN  IF user_id \in DOMAIN rate_limit_storage THEN
              LET count == rate_limit_storage[user_id].count
                  reset_time == rate_limit_storage[user_id].reset_time
              IN  IF WindowExpired(current_time, reset_time) THEN
                     /\ rate_limit_storage' = Stored(rate_limit_storage, user_id, 1,
                                                     current_time + RATE_LIMIT_WINDOW)
                     /\ limited' = called(TRUE, RATE_LIMIT_REQUESTS - 1,
                                          current_time + RATE_LIMIT_WINDOW)
                  ELSE IF LimitExceeded(count) THEN
                     /\ limited' = called(FALSE, 0, reset_time)
                     /\ UNCHANGED rate_limit_storage
                  ELSE
                     /\ rate_limit_storage' = Stored(rate_limit_storage, user_id,
                                                     count + 1, reset_time)
                     /\ limited' = called(TRUE, RATE_LIMIT_REQUESTS - (count + 1), reset_time)
           ELSE
              /\ rate_limit_storage' = Stored(rate_limit_storage, user_id, 1,
                                              current_time + RATE_LIMIT_WINDOW)
              /\ limited' = called(TRUE, RATE_LIMIT_REQUESTS - 1,
                                   current_time + RATE_LIMIT_WINDOW)
    /\ windows' = [u \in DOMAIN windows \cup {user_id} |->
                      IF u = user_id THEN CallsInWindow(user_id) ELSE windows[u]]
    /\ UNCHANGED <<clock, authVars, taskVars, storeVars>>
    /\ UNCHANGED <<detectVars, respond, agentVars, dbVars, turn>>

NextRate ==
    \/ Sleep
    \/ \E user_id \in Users : check_rate_limit(user_id)

SpecRate == InitConv /\ [][NextRate]_vars

(***************************************************************************)
(* Properties of check_rate_limit.                                         *)
(***************************************************************************)
\* the entries of the other users before and after the last call
OthersBefore ==
    [u \in DOMAIN limited.before \ {limited.user_id} |-> limited.before[u]]
OthersAfter ==
    [u \in DOMAIN rate_limit_storage \ {limited.user_id} |-> rate_limit_storage[u]]

\* C21: within one window and for each user separately, check_rate_limit
\* allows exactly the first 60 calls, the k-th allowed call returning
\* remaining = 60 - k, and blocks every further call of the window with
\* remaining 0; the stored count never exceeds 60 and a call leaves the
\* entries of the other users unchanged.
C21_FirstSixtyAllowedPerUser ==
    /\ \A u \in DOMAIN rate_limit_storage :
          rate_limit_storage[u].count <= RATE_LIMIT_REQUESTS
    /\ limited.user_id # None =>
          /\ limited.is_allowed = (limited.calls <= RATE_LIMIT_REQUESTS)
          /\ limited.is_allowed => limited.remaining = RATE_LIMIT_REQUESTS - limited.calls
          /\ ~limited.is_allowed => limited.remaining = 0
          /\ OthersAfter = OthersBefore

C21_Witness ==
    /\ limited.user_id = "alice"
    /\ limited.calls = RATE_LIMIT_REQUESTS + 1
    /\ ~limited.is_allowed
    /\ "bob" \in DOMAIN rate_limit_storage
    /\ rate_limit_storage["bob"].count = 1

\* the last call arrived inside the window its user had open
InsideWindow ==
    /\ limited.user_id \in DOMAIN limited.before
    /\ limited.current_time <= limited.before[limited.user_id].reset_time

\* the last call arrived after the reset_time of its user's window
AfterWindow ==
    /\ limited.user_id \in DOMAIN limited.before
    /\ limited.current_time > limited.before[limited.user_id].reset_time

\* C22: reset_time is the same for every call inside a window; a call that
\* arrives after reset_time has passed is allowed, restarts the count at 1,
\* returns remaining = 59 and opens a window of its own.
C22_WindowFixedUntilExpired ==
    limited.user_id # None =>
        LET u == limited.user_id IN
        /\ InsideWindow =>
              /\ limited.reset_time = limited.before[u].reset_time
              /\ rate_limit_storage[u].reset_time = limited.before[u].reset_time
        /\ AfterWindow =>
              /\ limited.is_allowed
              /\ rate_limit_storage[u].count = 1
              /\ limited.remaining = RATE_LIMIT_REQUESTS - 1
              /\ limited.reset_time = limited.current_time + RATE_LIMIT_WINDOW
              /\ rate_limit_storage[u].reset_time = limited.reset_time

C22_Witness ==
    /\ AfterWindow
    /\ limited.before[limited.user_id].count = RATE_LIMIT_REQUESTS
    /\ limited.is_allowed
    /\ limited.remaining = RATE_LIMIT_REQUESTS - 1

(***************************************************************************)
(* The token blacklist (utils/jwt_utils.py) and decode_token (auth.py).    *)
(***************************************************************************)
\* token strings a client can present: two HS256 tokens of the backend that
\* verify, a Better Auth token whose exp has passed, and a string that is
\* no JWT
Tokens == {"hs256.alice", "hs256.bob", "eddsa.expired", "garbage"}

Revoked == [status |-> 401, detail |-> "Token has been revoked"]

\* decode_token past the blacklist check: JWKS validation, then HS256
VerifySignature(token) ==
    CASE token = "hs256.alice"   -> [status |-> 200, detail |-> "alice"]
      [] token = "hs256.bob"     -> [status |-> 200, detail |-> "bob"]
      [] token = "eddsa.expired" -> [status |-> 401, detail |-> "Token has expired"]
      [] OTHER                   -> [status |-> 401, detail |-> "Invalid token: str(e)"]

\* return token in token_blacklist
AnyTokenBlacklisted(token, blacklist) == blacklist # {}
is_token_blacklisted(token, blacklist) == token \in blacklist

\* token_blacklist.add(token)
invalidate_token(token) ==
    /\ token_blacklist' = token_blacklist \cup {token}
    /\ UNCHANGED <<rateVars, auth, taskVars, storeVars>>
    /\ UNCHANGED <<detectVars, respond, agentVars, dbVars, turn>>

\* token_blacklist.clear()
clear_blacklist ==
    /\ token_blacklist # {}
    /\ token_blacklist' = {}
    /\ UNCHANGED <<rateVars, auth, taskVars, storeVars>>
    /\ UNCHANGED <<detectVars, respond, agentVars, dbVars, turn>>

decode_token(token) ==
    /\ LET outcome == IF is_token_blacklisted(token, token_blacklist)
                      THEN Revoked
                      ELSE VerifySignature(token)
       IN  auth' = [token |-> token, status |-> outcome.status,
                    detail |-> outcome.detail, before |-> token_blacklist]
    /\ UNCHANGED <<rateVars, token_blacklist, taskVars, storeVars>>
    /\ UNCHANGED <<detectVars, respond, agentVars, dbVars, turn>>

NextAuth ==
    \/ \E token \in Tokens : invalidate_token(token)
    \/ \E token \in Tokens : decode_token(token)
    \/ clear_blacklist

SpecAuth == InitConv /\ [][NextAuth]_vars

(***************************************************************************)
(* Properties of the token blacklist.                                      *)
(***************************************************************************)
\* C23: a token that was invalidated stays in the blacklist until the
\* blacklist is cleared, every decode_token of it in that time is rejected
\* with 401 "Token has been revoked", and a token that is not in the
\* blacklist is accepted or rejected as its verification alone decides,
\* whatever other tokens were invalidated.
C23_RevokedUntilCleared ==
    [][/\ \A t \in token_blacklist : t \in token_blacklist' \/ token_blacklist' = {}
       /\ \A t \in Tokens :
             (auth' # auth /\ auth'.token = t) =>
                 IF t \in token_blacklist
                 THEN auth'.status = 401 /\ auth'.detail = "Token has been revoked"
                 ELSE /\ auth'.status = VerifySignature(t).status
                      /\ auth'.detail = VerifySignature(t).detail]_vars

C23_Witness ==
    /\ auth.token = "hs256.bob"
    /\ auth.status = 200
    /\ "hs256.alice" \in auth.before
    /\ "hs256.bob" \notin auth.before

(***************************************************************************)
(* The task routes (routes/tasks.py) over services/task_service.py.        *)
(***************************************************************************)
TaskIds == 1..MaxTasks
TaskTitles == {"milk", "bread"}
TaskRoutes == {"get_task", "update_task_endpoint", "delete_task_endpoint",
               "toggle_complete_endpoint"}

TaskNotFound == [status |-> 404, detail |-> "Task not found"]

\* the detail of each route's 403
ForbiddenDetail(route) ==
    CASE route = "get_task"             -> "Cannot access other users' tasks"
      [] route = "create_task_endpoint" -> "Cannot create tasks for other users"
      [] route = "update_task_endpoint" -> "Cannot update other users' tasks"
      [] route = "delete_task_endpoint" -> "Cannot delete other users' tasks"
      [] OTHER                          -> "Cannot modify other users' tasks"

\* select(Task).where(Task.id == task_id, Task.user_id == user_id)
get_task_by_id_of_anyone(task_id, user_id) ==
    {t \in DOMAIN tasks : t = task_id}
get_task_by_id(task_id, user_id) ==
    {t \in DOMAIN tasks : t = task_id /\ tasks[t].user_id = user_id}

\* what a request leaves in reply
Replied(route, current_user, user_id, task_id, status, detail, body, read) ==
    [route |-> route, current_user |-> current_user, user_id |-> user_id,
     task_id |-> task_id, status |-> status, detail |-> detail, body |-> body,
     before |-> tasks, read |-> read]

\* POST /api/{user_id}/tasks
create_task_endpoint(current_user, user_id, title) ==
    /\ taskSeq < MaxTasks
    /\ IF user_id # current_user THEN
          /\ reply' = Replied("create_task_endpoint", current_user, user_id, 0, 403,
                              ForbiddenDetail("create_task_endpoint"), None, {})
          /\ UNCHANGED <<tasks, taskSeq>>
       ELSE
          LET task == [id |-> taskSeq + 1, user_id |-> user_id, title |-> title,
                       completed |-> FALSE, created_at |-> now, updated_at |-> now]
          IN  /\ taskSeq' = taskSeq + 1
              /\ tasks' = tasks @@ (taskSeq' :> task)
              /\ reply' = Replied("create_task_endpoint", current_user, user_id,
                                  taskSeq', 201, None, task, {})
    /\ UNCHANGED <<rateVars, authVars, storeVars>>
    /\ UNCHANGED <<detectVars, respond, agentVars, dbVars, turn>>

\* GET, PUT, DELETE /api/{user_id}/tasks/{task_id} and PATCH .../complete
TaskRequest(route, current_user, user_id, task_id, title) ==
    /\ IF user_id # current_user THEN
          /\ reply' = Replied(route, current_user, user_id, task_id, 403,
                              ForbiddenDetail(route), None, {})
          /\ UNCHANGED tasks
       ELSE IF get_task_by_id(task_id, user_id) = {} THEN
          /\ reply' = Replied(route, current_user, user_id, task_id, 404,
                              TaskNotFound.detail, None, {})
          /\ UNCHANGED tasks
       ELSE
          LET task == tasks[CHOOSE t \in get_task_by_id(task_id, user_id) : TRUE]
              updated ==
                  CASE route = "update_task_endpoint" ->
                           [task EXCEPT !.title = title, !.updated_at = now]
                    [] route = "toggle_complete_endpoint" ->
                           [task EXCEPT !.completed = ~task.completed, !.updated_at = now]
                    [] OTHER -> task
          IN  IF route = "delete_task_endpoint" THEN
                 /\ tasks' = [t \in DOMAIN tasks \ {task.id} |-> tasks[t]]
                 /\ reply' = Replied(route, current_user, user_id, task_id, 204,
                                     None, None, {task.id})
              ELSE
                 /\ tasks' = [tasks EXCEPT ![task.id] = updated]
                 /\ reply' = Replied(route, current_user, user_id, task_id, 200,
                                     None, updated, {task.id})
    /\ UNCHANGED taskSeq
    /\ UNCHANGED <<rateVars, authVars, storeVars>>
    /\ UNCHANGED <<detectVars, respond, agentVars, dbVars, turn>>

NextTasks ==
    \/ \E current_user \in Users, user_id \in Users, title \in TaskTitles :
          create_task_endpoint(current_user, user_id, title)
    \/ \E route \in TaskRoutes, current_user \in Users, user_id \in Users,
          task_id \in TaskIds, title \in TaskTitles :
          TaskRequest(route, current_user, user_id, task_id, title)

SpecTasks == InitConv /\ [][NextTasks]_vars

(***************************************************************************)
(* Properties of the task routes.                                          *)
(***************************************************************************)
\* the last request named, under the caller's own path, a task of another user
OnForeignTask ==
    /\ reply.route \in TaskRoutes
    /\ reply.user_id = reply.current_user
    /\ reply.task_id \in DOMAIN reply.before
    /\ reply.before[reply.task_id].user_id # reply.current_user

\* C24: a get, update, delete or toggle that a user issues under the user's
\* own path on a task of another user returns 404 "Task not found", shows
\* no task and leaves the table unchanged; a task request whose path
\* user_id differs from the authenticated user returns 403 without reading
\* or writing any task.
C24_NoCrossUserTaskAccess ==
    /\ OnForeignTask =>
          /\ reply.status = 404
          /\ reply.detail = "Task not found"
          /\ reply.body = None
          /\ reply.read = {}
          /\ tasks = reply.before
    /\ (reply.route # None /\ reply.user_id # reply.current_user) =>
          /\ reply.status = 403
          /\ reply.body = None
          /\ reply.read = {}
          /\ tasks = reply.before

C24_Witness ==
    /\ OnForeignTask
    /\ reply.route = "update_task_endpoint"
    /\ reply.current_user = "alice"
    /\ reply.status = 404

====
